---- MODULE Spec2Model ----
(***************************************************************************)
(* Model of the text-to-cypher pipeline of FalkorDB/text-to-cypher.        *)
(*                                                                         *)
(* Three pipeline variants are modelled, one request at a time:            *)
(*   "orchestrator"  process_text_to_cypher_request      (src/main.rs)     *)
(*   "stream"        process_text_to_cypher_stream       (src/streaming.rs)*)
(*   "processor"     processor::process                  (src/processor.rs)*)
(*                                                                         *)
(* A second specification, SpecLib, makes one call of a library function   *)
(* (validator, formatter, schema discovery, chat-request builders) on an    *)
(* argument drawn from a bounded set.                                       *)
(* A third one, SpecCache, runs the request up to its cache write on a      *)
(* schema cache that holds its full capacity of entries.                   *)
(*                                                                         *)
(* A string is a sequence of tokens; a token is a keyword, a punctuation   *)
(* mark, a white-space character, a code fence, or an opaque word.  The    *)
(* regular expressions of the validator match at token granularity.        *)
(***************************************************************************)
EXTENDS Naturals, Sequences, FiniteSets, TLC

\* Largest number of items the provider's token stream delivers in one answer.
MaxChunks == 2

----------------------------------------------------------------------------
\* Strings

WS == {" ", "\n"}

RECURSIVE TrimStart(_)
TrimStart(s) == IF s # <<>> /\ Head(s) \in WS THEN TrimStart(Tail(s)) ELSE s

RECURSIVE TrimEnd(_)
TrimEnd(s) ==
    IF s # <<>> /\ s[Len(s)] \in WS THEN TrimEnd(SubSeq(s, 1, Len(s) - 1)) ELSE s

\* str::trim
Trim(s) == TrimEnd(TrimStart(s))

\* the code-fence marker (three backquotes) is one token
FENCE == "<fence>"

IsFence(t) == t = FENCE
NotFence(t) == ~IsFence(t)

\* query.replace(newline, " ").replace(fence, "").trim()
CleanQuery(raw) ==
    LET spaced == [i \in DOMAIN raw |-> IF raw[i] = "\n" THEN " " ELSE raw[i]]
    IN  Trim(SelectSeq(spaced, NotFence))

NO_ANSWER == <<"NO ANSWER">>

\* query.trim().is_empty() || query.trim() == "NO ANSWER"
NoQuery(raw) == Trim(raw) = <<>> \/ Trim(raw) = NO_ANSWER

----------------------------------------------------------------------------
\* CypherValidator

\* to_uppercase / (?i) on the tokens the model uses
Upper(t) ==
    CASE t = "match"  -> "MATCH"
      [] t = "delete" -> "DELETE"
      [] t = "drop"   -> "DROP"
      [] t = "return" -> "RETURN"
      [] OTHER        -> t

BasicCypher == {"MATCH", "CREATE", "MERGE", "DELETE", "SET", "REMOVE",
                "RETURN", "WITH", "UNWIND", "CALL"}

\* a keyword of words directly followed by white space: (?i)(W\s)
FollowedByWs(q, words) ==
    \E i \in 1..(Len(q) - 1) : Upper(q[i]) \in words /\ q[i + 1] \in WS

\* a check that compares the totals only and never looks at the running count
BalanceTotalsOnly(q, open, close, count) ==
    count + Cardinality({i \in DOMAIN q : q[i] = open})
        = Cardinality({i \in DOMAIN q : q[i] = close})

\* the running counter of check_balanced_parentheses / check_balanced_brackets
RECURSIVE Balance(_, _, _, _)
Balance(q, open, close, count) ==
    IF q = <<>> THEN count = 0
    ELSE IF Head(q) = open THEN Balance(Tail(q), open, close, count + 1)
    ELSE IF Head(q) = close
         THEN IF count = 0 THEN FALSE
              ELSE Balance(Tail(q), open, close, count - 1)
    ELSE Balance(Tail(q), open, close, count)

check_balanced_parentheses(q) == Balance(q, "(", ")", 0)

check_balanced_brackets(q) == Balance(q, "[", "]", 0)

\* a validator whose warnings block the query as errors do
ValidateWarningsBlock(query) ==
    LET q == Trim(query)
        has_keyword == \E i \in DOMAIN q : Upper(q[i]) \in BasicCypher
        dangerous == FollowedByWs(q, {"DROP", "DELETE"})
        has_return == FollowedByWs(q, {"RETURN"})
        errors == (IF has_keyword THEN <<>>
                   ELSE <<"Query does not contain valid Cypher keywords">>)
                  \o (IF dangerous
                      THEN <<"Query contains potentially dangerous operations (DROP, DELETE ALL)">>
                      ELSE <<>>)
                  \o (IF check_balanced_parentheses(q) THEN <<>>
                      ELSE <<"Unbalanced parentheses in query">>)
                  \o (IF check_balanced_brackets(q) THEN <<>>
                      ELSE <<"Unbalanced brackets in query">>)
        warnings == IF has_return THEN <<>>
                    ELSE <<"Query does not contain a RETURN clause">>
    IN  IF q = <<>>
        THEN [is_valid |-> FALSE, errors |-> <<"Query is empty">>, warnings |-> <<>>]
        ELSE [is_valid |-> errors = <<>> /\ warnings = <<>>,
              errors |-> errors, warnings |-> warnings]

validate(query) ==
    LET q == Trim(query)
        e1 == IF \E i \in DOMAIN q : Upper(q[i]) \in BasicCypher THEN <<>>
              ELSE <<"Query does not contain valid Cypher keywords">>
        e2 == IF FollowedByWs(q, {"DROP", "DELETE"})
              THEN <<"Query contains potentially dangerous operations (DROP, DELETE ALL)">>
              ELSE <<>>
        starts_with_non_match == Upper(q[1]) \in {"CREATE", "MERGE", "CALL", "UNWIND"}
        w1 == IF ~FollowedByWs(q, {"MATCH"}) /\ ~starts_with_non_match
              THEN <<"Query does not contain a MATCH clause">> ELSE <<>>
        w2 == IF ~FollowedByWs(q, {"RETURN"})
              THEN <<"Query does not contain a RETURN clause">> ELSE <<>>
        e3 == IF check_balanced_parentheses(q) THEN <<>>
              ELSE <<"Unbalanced parentheses in query">>
        e4 == IF check_balanced_brackets(q) THEN <<>>
              ELSE <<"Unbalanced brackets in query">>
        errors == e1 \o e2 \o e3 \o e4
    IN  IF q = <<>>
        THEN [is_valid |-> FALSE, errors |-> <<"Query is empty">>, warnings |-> <<>>]
        ELSE [is_valid |-> errors = <<>>, errors |-> errors, warnings |-> w1 \o w2]

----------------------------------------------------------------------------
\* Values exchanged with the collaborators

Graphs == {"g1", "g2"}

\* Option<T>: None is <<>>, Some(v) is <<v>>
None == <<>>
Some(v) == <<v>>

CACHED_SCHEMA == <<"{cached schema}">>
DISCOVERED_SCHEMA == <<"{discovered schema}">>

QUESTION == <<"Find all people named Alice">>

\* the caller's conversation
Conversations == {<<[role |-> "user", content |-> QUESTION]>>}

Q_MATCH == <<"MATCH", " ", "(", "n", ")", " ", "RETURN", " ", "n">>
Q_MATCH2 == <<"MATCH", " ", "(", "m", ")", " ", "RETURN", " ", "m">>
Q_DELETE == <<"MATCH", " ", "(", "n", ")", " ", "DELETE", " ", "n">>

\* the keyword directly followed by a parenthesis, in lower case
Q_DELETE_PAREN == <<"MATCH", " ", "(", "n", ")", " ", "delete", "(", "n", ")">>

\* raw texts the model may answer a Query Synthesis with
Replies == {Q_MATCH, <<FENCE>> \o Q_MATCH2 \o <<"\n", FENCE>>, Q_DELETE, <<" ">>, NO_ANSWER,
            Q_DELETE_PAREN}

\* client.exec_chat: Err(e), or Ok(response) whose text content may be absent
ChatOutcomes ==
    {[ok |-> FALSE, content |-> None]}
        \cup {[ok |-> TRUE, content |-> c] : c \in {None} \cup {Some(r) : r \in Replies}}

DbErrors == {"syntax error", "timeout"}

RESULT_TEXTS == {<<"No results returned.">>, <<"(:Person {name: ", "\"Alice\"", "})">>}

\* the graph database on a generated query: records, a failure to connect, or a
\* failure of the query
ExecOutcomes ==
    {[ok |-> TRUE, kind |-> "records", text |-> t] : t \in RESULT_TEXTS}
        \cup {[ok |-> FALSE, kind |-> "connect", text |-> <<"Failed to build client: ", "refused">>]}
        \cup {[ok |-> FALSE, kind |-> "query", text |-> <<"Query execution failed: ", e>>] : e \in DbErrors}

CHUNK_TEXTS == {"Alice ", "is a person."}

Progress(tag, text) == [tag |-> tag, text |-> text]

Terminal == {"Result", "Error"}

RECURSIVE Join(_, _)
\* errors.join(sep)
Join(strs, sep) ==
    IF strs = <<>> THEN <<>>
    ELSE IF Len(strs) = 1 THEN <<strs[1]>>
    ELSE <<strs[1], sep>> \o Join(Tail(strs), sep)

\* a feedback that drops the assistant turn holding the failed query
AppendFeedbackOnly(chat, failed_query, error_message) ==
    chat \o <<[role |-> "user",
               content |-> <<"The previous query has validation errors: ">> \o error_message
                             \o <<". Please generate a corrected Cypher query.">>]>>

append_validation_feedback(chat, failed_query, error_message) ==
    chat \o <<[role |-> "assistant", content |-> failed_query],
              [role |-> "user",
               content |-> <<"The previous query has validation errors: ">> \o error_message
                             \o <<". Please generate a corrected Cypher query.">>]>>

\* the retry conversation of attempt_query_self_healing
healing_feedback(chat, failed_query, error_message) ==
    chat \o <<[role |-> "assistant", content |-> failed_query],
              [role |-> "user",
               content |-> <<"The previous query failed with error: ">> \o error_message
                             \o <<". Please generate a corrected Cypher query that fixes this error and follows the schema more closely.">>]>>

\* content_text_into_string().unwrap_or_else(|| "NO ANSWER")
ContentOrNoAnswer(content) == IF content = None THEN NO_ANSWER ELSE content[1]

----------------------------------------------------------------------------
\* State

VARIABLES
    variant,        \* which pipeline runs the request
    cypher_only,    \* request.cypher_only
    graph_name,     \* request.graph_name
    chat_request,   \* request.chat_request.messages
    model_status,   \* request.model after the defaults, and whether it resolves
    pc,             \* position of the pipeline task
    events,         \* progress events the channel accepted, in order
    rxOpen,         \* the consumer still holds the receiving end
    sendFailed,     \* some send on the channel has failed
    schema_cache,   \* AppConfig::schema_cache, per graph an Option
    others,         \* the number of entries the cache holds for other graphs
    last_op,        \* per graph, the last insert or invalidate made on the cache, and
                    \* whether the graph was invalidated while the request held a
                    \* schema it had not yet written (stale)
    calls,          \* invocations of the collaborators and of the validator
    schema, query, clean_query, retry_query, heal_query, fixed_query,
    executed_query, exec_error, query_result, attempt,
    chunk, answer, polled,
    response,       \* the ProcessorResponse of the buffered pipeline, an Option
    unit,           \* the library function under call, "pipeline" while a request runs
    input,          \* the argument of the library call
    output          \* the value the library call returned, an Option

req == <<variant, cypher_only, graph_name, chat_request, model_status>>
chan == <<events, rxOpen, sendFailed>>
gen == <<query, clean_query, retry_query>>
exe == <<heal_query, fixed_query, executed_query, exec_error, query_result, attempt>>
ans == <<chunk, answer, polled>>
cache == <<schema_cache, last_op, others>>
lib == <<unit, input, output>>
vars == <<req, lib, pc, chan, cache, calls, schema, gen, exe, ans, response>>

Variants == {"orchestrator", "stream", "processor"}

\* no model after the defaults; a model resolve_service_target rejects; a model
\* it resolves.  streaming.rs falls back to a fixed model and resolves nothing.
ModelStatuses == {"no model", "unresolved", "resolved"}

Entry(v) ==
    CASE v = "orchestrator" -> "text_to_cypher"
      [] v = "stream"       -> "stream_init"
      [] v = "processor"    -> "process_start"

Init ==
    /\ variant \in Variants
    /\ cypher_only \in (IF variant = "processor" THEN {FALSE} ELSE BOOLEAN)
    /\ graph_name \in Graphs
    /\ chat_request \in Conversations
    /\ model_status \in (IF variant = "stream" THEN {"resolved"} ELSE ModelStatuses)
    /\ pc = Entry(variant)
    /\ events = <<>>
    /\ rxOpen = TRUE
    /\ sendFailed = FALSE
    /\ schema_cache \in [Graphs -> {None, Some(CACHED_SCHEMA)}]
    /\ last_op = [g \in Graphs |-> [op |-> "none", value |-> None, stale |-> FALSE]]
    /\ others = 0
    /\ calls = <<>>
    /\ schema = <<>>
    /\ query = <<>>
    /\ clean_query = <<>>
    /\ retry_query = <<>>
    /\ heal_query = <<>>
    /\ fixed_query = <<>>
    /\ executed_query = <<>>
    /\ exec_error = <<>>
    /\ query_result = <<>>
    /\ attempt = 1
    /\ chunk = ""
    /\ answer = <<>>
    /\ polled = 0
    /\ response = None
    /\ unit = "pipeline"
    /\ input = <<>>
    /\ output = None

Call(op, arg, ok) == [op |-> op, arg |-> arg, ok |-> ok]

\* tx.send(event).await: Ok while the receiver lives, Err once it is gone
Send(progress) ==
    IF rxOpen
    THEN events' = Append(events, progress) /\ UNCHANGED <<rxOpen, sendFailed>>
    ELSE sendFailed' = TRUE /\ UNCHANGED <<events, rxOpen>>

\* the client disconnects: the SSE response, and with it the receiver, is dropped
ConsumerDrop ==
    /\ variant \in {"orchestrator", "stream"}
    /\ pc \notin {"done", "panicked"}
    /\ rxOpen
    /\ rxOpen' = FALSE
    /\ UNCHANGED <<req, lib, pc, events, sendFailed, cache, calls, schema, gen, exe, ans, response>>

----------------------------------------------------------------------------
\* Observations

Done == pc \in {"done", "panicked"}

Tags == [i \in DOMAIN events |-> events[i].tag]

Positions(tags) == {i \in DOMAIN events : events[i].tag \in tags}

IsSynth(c) == c.op = "synth"
IsValidate(c) == c.op = "validate"
IsExec(c) == c.op = "exec"
IsAnswer(c) == c.op = "answer"
\* a call to the AI provider or to the graph database
IsExternal(c) == c.op \in {"discover", "synth", "exec", "answer"}

Synths == SelectSeq(calls, IsSynth)
Validates == SelectSeq(calls, IsValidate)
Execs == SelectSeq(calls, IsExec)
Answers == SelectSeq(calls, IsAnswer)

Streaming == variant \in {"orchestrator", "stream"}

----------------------------------------------------------------------------
\* The schema cache, moka::sync::Cache<String, String>, and its endpoints.  The
\* cache holds up to CAPACITY entries: the entries of the graphs of the model
\* and a number of entries of other graphs.  An insert that takes the cache over
\* its capacity evicts one entry, which the cache chooses.  The endpoints are
\* interleaved with the steps of the request up to its own insert; the later
\* steps neither read nor write the cache.

\* Cache::new(100)
CAPACITY == 100

CachePhase == {"text_to_cypher", "send_processing_status", "get_or_discover_schema",
               "discover_status", "discover_graph_schema", "send_schema"}

\* cache.insert(key, value)
insert(entries, key, value) == [entries EXCEPT ![key] = Some(value)]

\* cache.invalidate(key)
invalidate(entries, key) == [entries EXCEPT ![key] = None]

\* the number of entries in the cache
EntryCount(entries, n) == Cardinality({g \in Graphs : entries[g] # None}) + n

\* cache.insert(key, value) on the shared cache, with the eviction it may cause:
\* of an entry of another graph, or of an entry of a graph of the model, the
\* new one included
CacheInsert(key, value) ==
    LET inserted == insert(schema_cache, key, value)
    IN  IF EntryCount(inserted, others) <= CAPACITY
        THEN schema_cache' = inserted /\ others' = others
        ELSE \/ others > 0 /\ others' = others - 1 /\ schema_cache' = inserted
             \/ \E g \in Graphs :
                   /\ inserted[g] # None
                   /\ schema_cache' = invalidate(inserted, g)
                   /\ others' = others

\* a clear_schema_cache that leaves the entry in place
ClearSchemaCacheKeepsEntry(g) ==
    /\ variant = "orchestrator" /\ pc \in CachePhase
    /\ last_op' = [last_op EXCEPT ![g] = [op |-> "invalidate", value |-> None,
                                         stale |-> g = graph_name /\ pc = "send_schema"]]
    /\ UNCHANGED <<req, lib, pc, chan, schema_cache, others, calls, schema, gen, exe, ans,
                   response>>

\* a clear_schema_cache that empties the cache of the graphs of the model
ClearSchemaCacheAll(g) ==
    /\ variant = "orchestrator" /\ pc \in CachePhase
    /\ schema_cache' = [h \in Graphs |-> None]
    /\ others' = others
    /\ last_op' = [last_op EXCEPT ![g] = [op |-> "invalidate", value |-> None,
                                         stale |-> g = graph_name /\ pc = "send_schema"]]
    /\ UNCHANGED <<req, lib, pc, chan, calls, schema, gen, exe, ans, response>>

\* POST /clear_schema_cache/{graph_name}: process_clear_schema_cache
ClearSchemaCache(g) ==
    /\ variant = "orchestrator" /\ pc \in CachePhase
    /\ schema_cache' = invalidate(schema_cache, g)
    /\ others' = others
    /\ last_op' = [last_op EXCEPT ![g] = [op |-> "invalidate", value |-> None,
                                         stale |-> g = graph_name /\ pc = "send_schema"]]
    /\ UNCHANGED <<req, lib, pc, chan, calls, schema, gen, exe, ans, response>>

\* GET /get_schema/{graph_name}: get_graph_schema_string.  A hit returns the
\* cached text; a miss discovers the schema and inserts it, and a failed
\* discovery panics the handler before the insert.
GetGraphSchemaString(g) ==
    /\ variant = "orchestrator" /\ pc \in CachePhase
    /\ schema_cache[g] = None
    /\ \E ok \in BOOLEAN :
         IF ok
         THEN /\ CacheInsert(g, DISCOVERED_SCHEMA)
              /\ last_op' = [last_op EXCEPT ![g] = [op |-> "insert", value |-> Some(DISCOVERED_SCHEMA),
                                                   stale |-> last_op[g].stale]]
         ELSE UNCHANGED cache
    /\ UNCHANGED <<req, lib, pc, chan, calls, schema, gen, exe, ans, response>>

CacheEndpoints == \E g \in Graphs : ClearSchemaCache(g) \/ GetGraphSchemaString(g)

----------------------------------------------------------------------------
\* The streaming orchestrator: process_text_to_cypher_request

\* a handler that spawns the pipeline whatever the model is
TextToCypherStartsAnyway ==
    /\ pc = "text_to_cypher"
    /\ pc' = "send_processing_status"
    /\ UNCHANGED <<req, lib, chan, cache, calls, schema, gen, exe, ans, response>>

\* text_to_cypher: the channel is created; without a model, or with a model
\* that does not resolve, a task is spawned that only sends an Error; otherwise
\* the task runs process_text_to_cypher_request
TextToCypher ==
    /\ pc = "text_to_cypher"
    /\ pc' = IF model_status = "resolved" THEN "send_processing_status" ELSE "reject_error"
    /\ UNCHANGED <<req, lib, chan, cache, calls, schema, gen, exe, ans, response>>

MODEL_REQUIRED == <<"Model must be provided either in request or as DEFAULT_MODEL in .env file">>

RESOLVE_FAILED == <<"Failed to resolve service target: ", "unknown model">>

\* text_to_cypher, the spawned task: let _ = tx.send(error_event).await
RejectError ==
    /\ pc = "reject_error"
    /\ Send(Progress("Error", IF model_status = "no model" THEN MODEL_REQUIRED ELSE RESOLVE_FAILED))
    /\ pc' = "done"
    /\ UNCHANGED <<req, lib, cache, calls, schema, gen, exe, ans, response>>

\* send_processing_status: send! returns from the helper only
SendProcessingStatus ==
    /\ pc = "send_processing_status"
    /\ Send(Progress("Status", <<"Processing query for graph: ", graph_name>>))
    /\ pc' = "get_or_discover_schema"
    /\ UNCHANGED <<req, lib, cache, calls, schema, gen, exe, ans, response>>

\* a lookup that discovers the schema whatever the cache holds
CacheLookupAlwaysDiscovers ==
    /\ pc = "get_or_discover_schema"
    /\ pc' = "discover_status"
    /\ UNCHANGED <<req, lib, chan, cache, calls, schema, gen, exe, ans, response>>

\* get_or_discover_schema: cache.get(graph_name)
CacheLookup ==
    /\ pc = "get_or_discover_schema"
    /\ IF schema_cache[graph_name] # None
       THEN schema' = schema_cache[graph_name][1] /\ pc' = "send_schema"
       ELSE pc' = "discover_status" /\ UNCHANGED schema
    /\ UNCHANGED <<req, lib, chan, cache, calls, gen, exe, ans, response>>

\* discover_and_send_schema: try_send!(Status)
DiscoverStatus ==
    /\ pc = "discover_status"
    /\ Send(Progress("Status", <<"Discovering schema for graph: ", graph_name>>))
    /\ pc' = IF rxOpen THEN "discover_graph_schema" ELSE "schema_failed_error"
    /\ UNCHANGED <<req, lib, cache, calls, schema, gen, exe, ans, response>>

\* discover_graph_schema (main.rs): every failure is an expect(), which panics
\* the task; the sender is dropped and the stream closes.  Serialising the
\* schema (structs of strings, numbers and lists) does not fail.
DiscoverGraphSchema ==
    /\ pc = "discover_graph_schema"
    /\ \E ok \in BOOLEAN :
         /\ calls' = Append(calls, Call("discover", <<graph_name>>, ok))
         /\ IF ok THEN schema' = DISCOVERED_SCHEMA /\ pc' = "send_schema"
                  ELSE pc' = "panicked" /\ UNCHANGED schema
    /\ UNCHANGED <<req, lib, chan, cache, gen, exe, ans, response>>

\* get_or_discover_schema: send_option!(Schema), then cache.insert
SendSchema ==
    /\ pc = "send_schema"
    /\ Send(Progress("Schema", schema))
    /\ IF rxOpen
       THEN /\ CacheInsert(graph_name, schema)
            /\ last_op' = [last_op EXCEPT ![graph_name] = [op |-> "insert", value |-> Some(schema),
                                                          stale |-> FALSE]]
            /\ pc' = "gen_status"
       ELSE pc' = "schema_failed_error" /\ UNCHANGED cache
    /\ UNCHANGED <<req, lib, calls, schema, gen, exe, ans, response>>

\* process_text_to_cypher_request: get_or_discover_schema returned None
SchemaFailedError ==
    /\ pc = "schema_failed_error"
    /\ Send(Progress("Error", <<"Failed to discover schema">>))
    /\ pc' = "done"
    /\ UNCHANGED <<req, lib, cache, calls, schema, gen, exe, ans, response>>

\* a send whose failure is ignored (send! in a helper instead of send_option!)
GenStatusIgnoresFailure ==
    /\ pc = "gen_status"
    /\ Send(Progress("Status", <<"Generating Cypher query using schema ...">>))
    /\ pc' = "gen_chat"
    /\ UNCHANGED <<req, lib, cache, calls, schema, gen, exe, ans, response>>

\* generate_cypher_query: send_option!(Status)
GenStatus ==
    /\ pc = "gen_status"
    /\ Send(Progress("Status", <<"Generating Cypher query using schema ...">>))
    /\ pc' = IF rxOpen THEN "gen_chat" ELSE "done"
    /\ UNCHANGED <<req, lib, cache, calls, schema, gen, exe, ans, response>>

\* generate_cypher_query, after execute_chat returned the text raw
AfterFirstReply(raw) == IF NoQuery(raw) THEN "gen_no_query_error" ELSE "gen_validate"

\* execute_chat on the caller's conversation: client.exec_chat
GenChat ==
    /\ pc = "gen_chat"
    /\ \E out \in ChatOutcomes :
         /\ calls' = Append(calls, Call("synth", chat_request, out.ok))
         /\ IF out.ok
            THEN /\ query' = ContentOrNoAnswer(out.content)
                 /\ pc' = AfterFirstReply(ContentOrNoAnswer(out.content))
            ELSE pc' = "gen_chat_error" /\ UNCHANGED query
    /\ UNCHANGED <<req, lib, chan, cache, schema, clean_query, retry_query, exe, ans, response>>

\* execute_chat: send_or_empty!(Error), then "NO ANSWER" (empty when the send failed)
GenChatError ==
    /\ pc = "gen_chat_error"
    /\ Send(Progress("Error", <<"Chat request failed: ", "provider error">>))
    /\ query' = IF rxOpen THEN NO_ANSWER ELSE <<>>
    /\ pc' = AfterFirstReply(IF rxOpen THEN NO_ANSWER ELSE <<>>)
    /\ UNCHANGED <<req, lib, cache, calls, schema, clean_query, retry_query, exe, ans, response>>

\* generate_cypher_query: send_option!(Error), return None
GenNoQueryError ==
    /\ pc = "gen_no_query_error"
    /\ Send(Progress("Error", <<"No valid query was generated">>))
    /\ pc' = "done"
    /\ UNCHANGED <<req, lib, cache, calls, schema, gen, exe, ans, response>>

\* validate_and_log_query(clean_query): CypherValidator::validate
GenValidate ==
    /\ pc = "gen_validate"
    /\ clean_query' = CleanQuery(query)
    /\ calls' = Append(calls, Call("validate", CleanQuery(query), validate(CleanQuery(query)).is_valid))
    /\ pc' = IF validate(CleanQuery(query)).is_valid THEN "gen_send_query" ELSE "gen_validation_error"
    /\ UNCHANGED <<req, lib, chan, cache, schema, query, retry_query, exe, ans, response>>

\* validate_and_log_query: send_option!(Error), return None
GenValidationError ==
    /\ pc = "gen_validation_error"
    /\ Send(Progress("Error", <<"Query validation errors: ">> \o Join(validate(clean_query).errors, "; ")))
    /\ pc' = "gen_regen_status"
    /\ UNCHANGED <<req, lib, cache, calls, schema, gen, exe, ans, response>>

\* generate_cypher_query: send_option!(Status) before the regeneration
GenRegenStatus ==
    /\ pc = "gen_regen_status"
    /\ Send(Progress("Status", <<"Query validation failed, attempting to regenerate...">>))
    /\ pc' = IF rxOpen THEN "gen_retry_chat" ELSE "done"
    /\ UNCHANGED <<req, lib, cache, calls, schema, gen, exe, ans, response>>

\* generate_cypher_query, after execute_chat returned the retry text raw
AfterRetryReply(raw) == IF NoQuery(raw) THEN "gen_warn_status" ELSE "gen_retry_validate"

\* execute_chat on the conversation with the validation feedback appended
GenRetryChat ==
    /\ pc = "gen_retry_chat"
    /\ \E out \in ChatOutcomes :
         /\ calls' = Append(calls,
                Call("synth",
                     append_validation_feedback(chat_request, clean_query,
                                                Join(validate(clean_query).errors, "; ")),
                     out.ok))
         /\ IF out.ok
            THEN /\ retry_query' = ContentOrNoAnswer(out.content)
                 /\ pc' = AfterRetryReply(ContentOrNoAnswer(out.content))
            ELSE pc' = "gen_retry_chat_error" /\ UNCHANGED retry_query
    /\ UNCHANGED <<req, lib, chan, cache, schema, query, clean_query, exe, ans, response>>

\* execute_chat: send_or_empty!(Error) for the failed regeneration
GenRetryChatError ==
    /\ pc = "gen_retry_chat_error"
    /\ Send(Progress("Error", <<"Chat request failed: ", "provider error">>))
    /\ retry_query' = IF rxOpen THEN NO_ANSWER ELSE <<>>
    /\ pc' = AfterRetryReply(IF rxOpen THEN NO_ANSWER ELSE <<>>)
    /\ UNCHANGED <<req, lib, cache, calls, schema, query, clean_query, exe, ans, response>>

\* validate_and_log_query(retry_clean)
GenRetryValidate ==
    /\ pc = "gen_retry_validate"
    /\ calls' = Append(calls, Call("validate", CleanQuery(retry_query),
                                   validate(CleanQuery(retry_query)).is_valid))
    /\ pc' = IF validate(CleanQuery(retry_query)).is_valid
             THEN "gen_send_retry_query" ELSE "gen_retry_validation_error"
    /\ UNCHANGED <<req, lib, chan, cache, schema, gen, exe, ans, response>>

\* validate_and_log_query: send_option!(Error) for the regenerated query
GenRetryValidationError ==
    /\ pc = "gen_retry_validation_error"
    /\ Send(Progress("Error", <<"Query validation errors: ">>
                                  \o Join(validate(CleanQuery(retry_query)).errors, "; ")))
    /\ pc' = "gen_warn_status"
    /\ UNCHANGED <<req, lib, cache, calls, schema, gen, exe, ans, response>>

\* an orchestrator that forgets the cypher_only test
AfterGenerateAlwaysExecutes == "exec_status"

\* process_text_to_cypher_request, after generate_cypher_query returned Some
AfterGenerate == IF cypher_only THEN "send_preview_result" ELSE "exec_status"

\* generate_cypher_query: send_option!(CypherQuery(validated)), return Some(validated)
GenSendRetryQuery ==
    /\ pc = "gen_send_retry_query"
    /\ Send(Progress("CypherQuery", CleanQuery(retry_query)))
    /\ IF rxOpen
       THEN executed_query' = CleanQuery(retry_query) /\ pc' = AfterGenerate
       ELSE pc' = "done" /\ UNCHANGED executed_query
    /\ UNCHANGED <<req, lib, cache, calls, schema, gen, heal_query, fixed_query,
                   exec_error, query_result, attempt, ans, response>>

\* generate_cypher_query: "If retry failed, still use original but warn"
GenWarnStatus ==
    /\ pc = "gen_warn_status"
    /\ Send(Progress("Status", <<"Warning: Query validation issues detected">>))
    /\ pc' = IF rxOpen THEN "gen_send_query" ELSE "done"
    /\ UNCHANGED <<req, lib, cache, calls, schema, gen, exe, ans, response>>

\* generate_cypher_query: send_option!(CypherQuery(clean_query)), return Some(clean_query)
GenSendQuery ==
    /\ pc = "gen_send_query"
    /\ Send(Progress("CypherQuery", clean_query))
    /\ IF rxOpen
       THEN executed_query' = clean_query /\ pc' = AfterGenerate
       ELSE pc' = "done" /\ UNCHANGED executed_query
    /\ UNCHANGED <<req, lib, cache, calls, schema, gen, heal_query, fixed_query,
                   exec_error, query_result, attempt, ans, response>>

\* process_text_to_cypher_request: cypher_only, send!(Result(executed_query))
SendPreviewResult ==
    /\ pc = "send_preview_result"
    /\ Send(Progress("Result", executed_query))
    /\ pc' = "done"
    /\ UNCHANGED <<req, lib, cache, calls, schema, gen, exe, ans, response>>

\* the query handed to execute_cypher_query: the first call gets executed_query,
\* the call after self-healing gets fixed_query
ExecTarget == IF attempt = 1 THEN executed_query ELSE fixed_query

\* process_text_to_cypher_request, on Ok(result) of execute_cypher_query
AfterExecOk == IF attempt = 1 THEN "answer_status" ELSE "heal_ok_status"

\* a self-healing that heals again when the fixed query fails
AfterExecErrHealsAgain == "heal_status"

\* process_text_to_cypher_request, on Err(()) of execute_cypher_query
AfterExecErr == IF attempt = 1 THEN "heal_status" ELSE "heal_failed_error"

\* execute_cypher_query: send_result!(Status)
ExecStatus ==
    /\ pc = "exec_status"
    /\ Send(Progress("Status", <<"Executing Cypher query...">>))
    /\ pc' = IF rxOpen THEN "execute_query" ELSE AfterExecErr
    /\ UNCHANGED <<req, lib, cache, calls, schema, gen, exe, ans, response>>

\* execute_query(query, graph_name, falkordb_connection, true, tx)
ExecuteQuery ==
    /\ pc = "execute_query"
    /\ \E out \in ExecOutcomes :
         /\ calls' = Append(calls, Call("exec", [query |-> ExecTarget, read_only |-> TRUE], out.ok))
         /\ CASE out.kind = "records" ->
                   /\ query_result' = out.text
                   /\ pc' = "send_cypher_result"
                   /\ UNCHANGED exec_error
              [] out.kind = "connect" ->
                   /\ exec_error' = out.text
                   /\ pc' = "exec_error"
                   /\ UNCHANGED query_result
              [] out.kind = "query" ->
                   /\ exec_error' = <<"Query execution failed: ">> \o out.text
                   /\ pc' = "exec_query_error"
                   /\ UNCHANGED query_result
    /\ UNCHANGED <<req, lib, chan, cache, schema, gen, heal_query, fixed_query,
                   executed_query, attempt, ans, response>>

\* execute_query: try_send_boxed!(Error(error_msg)), return Err
ExecQueryError ==
    /\ pc = "exec_query_error"
    /\ Send(Progress("Error", exec_error))
    /\ exec_error' = IF rxOpen THEN exec_error ELSE <<"Client disconnected">>
    /\ pc' = "exec_error"
    /\ UNCHANGED <<req, lib, cache, calls, schema, gen, heal_query, fixed_query,
                   executed_query, query_result, attempt, ans, response>>

\* execute_cypher_query: Err(e) => send_result!(Error), return Err(())
ExecError ==
    /\ pc = "exec_error"
    /\ Send(Progress("Error", <<"Query execution failed: ">> \o exec_error))
    /\ pc' = AfterExecErr
    /\ UNCHANGED <<req, lib, cache, calls, schema, gen, exe, ans, response>>

\* execute_cypher_query: Ok(result) => send_result!(CypherResult), return Ok(result)
SendCypherResult ==
    /\ pc = "send_cypher_result"
    /\ Send(Progress("CypherResult", query_result))
    /\ pc' = IF rxOpen THEN AfterExecOk ELSE AfterExecErr
    /\ UNCHANGED <<req, lib, cache, calls, schema, gen, exe, ans, response>>

\* process_text_to_cypher_request: send!(Status) opening the self-healing
HealStatus ==
    /\ pc = "heal_status"
    /\ Send(Progress("Status", <<"Query failed, attempting self-healing...">>))
    /\ pc' = IF rxOpen THEN "heal_chat" ELSE "done"
    /\ UNCHANGED <<req, lib, cache, calls, schema, gen, exe, ans, response>>

GENERIC_ERROR == <<"Query execution failed - see logs for details">>

\* attempt_query_self_healing, after execute_chat returned the text raw
AfterHealReply(raw) == IF NoQuery(raw) THEN "done" ELSE "heal_validate"

\* a self-healing that quotes the error of the failed execution
HealChatEchoesError ==
    /\ pc = "heal_chat"
    /\ \E out \in ChatOutcomes :
         /\ calls' = Append(calls,
                Call("synth", healing_feedback(chat_request, executed_query, exec_error), out.ok))
         /\ IF out.ok
            THEN /\ heal_query' = ContentOrNoAnswer(out.content)
                 /\ pc' = AfterHealReply(ContentOrNoAnswer(out.content))
            ELSE pc' = "heal_chat_error" /\ UNCHANGED heal_query
    /\ UNCHANGED <<req, lib, chan, cache, schema, gen, fixed_query, executed_query,
                   exec_error, query_result, attempt, ans, response>>

\* attempt_query_self_healing: execute_chat on the retry conversation
HealChat ==
    /\ pc = "heal_chat"
    /\ \E out \in ChatOutcomes :
         /\ calls' = Append(calls,
                Call("synth", healing_feedback(chat_request, executed_query, GENERIC_ERROR), out.ok))
         /\ IF out.ok
            THEN /\ heal_query' = ContentOrNoAnswer(out.content)
                 /\ pc' = AfterHealReply(ContentOrNoAnswer(out.content))
            ELSE pc' = "heal_chat_error" /\ UNCHANGED heal_query
    /\ UNCHANGED <<req, lib, chan, cache, schema, gen, fixed_query, executed_query,
                   exec_error, query_result, attempt, ans, response>>

\* execute_chat: send_or_empty!(Error); the caller then returns None
HealChatError ==
    /\ pc = "heal_chat_error"
    /\ Send(Progress("Error", <<"Chat request failed: ", "provider error">>))
    /\ heal_query' = IF rxOpen THEN NO_ANSWER ELSE <<>>
    /\ pc' = AfterHealReply(IF rxOpen THEN NO_ANSWER ELSE <<>>)
    /\ UNCHANGED <<req, lib, cache, calls, schema, gen, fixed_query, executed_query,
                   exec_error, query_result, attempt, ans, response>>

\* attempt_query_self_healing: validate_and_log_query(clean_query)
HealValidate ==
    /\ pc = "heal_validate"
    /\ calls' = Append(calls, Call("validate", CleanQuery(heal_query),
                                   validate(CleanQuery(heal_query)).is_valid))
    /\ pc' = IF validate(CleanQuery(heal_query)).is_valid
             THEN "heal_send_query" ELSE "heal_validation_error"
    /\ UNCHANGED <<req, lib, chan, cache, schema, gen, exe, ans, response>>

\* validate_and_log_query: send_option!(Error); the caller returns None
HealValidationError ==
    /\ pc = "heal_validation_error"
    /\ Send(Progress("Error", <<"Query validation errors: ">>
                                  \o Join(validate(CleanQuery(heal_query)).errors, "; ")))
    /\ pc' = "done"
    /\ UNCHANGED <<req, lib, cache, calls, schema, gen, exe, ans, response>>

\* a self-healing that sends the regenerated query without the mark
HealSendQueryUnmarked ==
    /\ pc = "heal_send_query"
    /\ Send(Progress("CypherQuery", CleanQuery(heal_query)))
    /\ IF rxOpen
       THEN /\ fixed_query' = CleanQuery(heal_query)
            /\ attempt' = 2
            /\ pc' = "exec_status"
       ELSE pc' = "done" /\ UNCHANGED <<fixed_query, attempt>>
    /\ UNCHANGED <<req, lib, cache, calls, schema, gen, heal_query, executed_query,
                   exec_error, query_result, ans, response>>

\* attempt_query_self_healing: send_option!(CypherQuery("Fixed: ...")), return Some
HealSendQuery ==
    /\ pc = "heal_send_query"
    /\ Send(Progress("CypherQuery", <<"Fixed: ">> \o CleanQuery(heal_query)))
    /\ IF rxOpen
       THEN /\ fixed_query' = CleanQuery(heal_query)
            /\ attempt' = 2
            /\ pc' = "exec_status"
       ELSE pc' = "done" /\ UNCHANGED <<fixed_query, attempt>>
    /\ UNCHANGED <<req, lib, cache, calls, schema, gen, heal_query, executed_query,
                   exec_error, query_result, ans, response>>

\* a self-healing that leaves the failed query as the executed query
HealOkStatusKeepsQuery ==
    /\ pc = "heal_ok_status"
    /\ Send(Progress("Status", <<"Self-healing successful">>))
    /\ pc' = IF rxOpen THEN "answer_status" ELSE "done"
    /\ UNCHANGED <<req, lib, cache, calls, schema, gen, exe, ans, response>>

\* process_text_to_cypher_request: the fixed query ran; executed_query = fixed_query
HealOkStatus ==
    /\ pc = "heal_ok_status"
    /\ Send(Progress("Status", <<"Self-healing successful">>))
    /\ IF rxOpen
       THEN executed_query' = fixed_query /\ pc' = "answer_status"
       ELSE pc' = "done" /\ UNCHANGED executed_query
    /\ UNCHANGED <<req, lib, cache, calls, schema, gen, heal_query, fixed_query,
                   exec_error, query_result, attempt, ans, response>>

\* process_text_to_cypher_request: the fixed query failed as well
HealFailedError ==
    /\ pc = "heal_failed_error"
    /\ Send(Progress("Error", <<"Query execution failed even after self-healing attempt">>))
    /\ pc' = "done"
    /\ UNCHANGED <<req, lib, cache, calls, schema, gen, exe, ans, response>>

\* generate_final_answer: send!(Status)
AnswerStatus ==
    /\ pc = "answer_status"
    /\ Send(Progress("Status", <<"Generating answer from chat history and Cypher output using AI model...">>))
    /\ pc' = IF rxOpen THEN "answer_open" ELSE "done"
    /\ UNCHANGED <<req, lib, cache, calls, schema, gen, exe, ans, response>>

\* execute_chat_stream: client.exec_chat_stream
AnswerOpen ==
    /\ pc = "answer_open"
    /\ \E ok \in BOOLEAN :
         /\ calls' = Append(calls, Call("answer", [query |-> executed_query, result |-> query_result], ok))
         /\ pc' = IF ok THEN "answer_next" ELSE "answer_open_error"
    /\ answer' = <<>>
    /\ polled' = 0
    /\ UNCHANGED <<req, lib, chan, cache, schema, gen, exe, chunk, response>>

\* execute_chat_stream: send_or_empty!(Error), return
AnswerOpenError ==
    /\ pc = "answer_open_error"
    /\ Send(Progress("Error", <<"Chat request failed: ", "provider error">>))
    /\ pc' = "done"
    /\ UNCHANGED <<req, lib, cache, calls, schema, gen, exe, ans, response>>

\* process_chat_stream: while let Some(Ok(stream_event)) = stream.next().await
AnswerNext ==
    /\ pc = "answer_next"
    /\ \/ \E c \in CHUNK_TEXTS :       \* Chunk(c): answer.push_str, then the send
            /\ polled < MaxChunks
            /\ chunk' = c
            /\ answer' = Append(answer, c)
            /\ polled' = polled + 1
            /\ pc' = "send_chunk"
            /\ UNCHANGED calls
       \/ /\ polled < MaxChunks        \* Start, ReasoningChunk, End: nothing is sent
          /\ polled' = polled + 1
          /\ UNCHANGED <<pc, chunk, answer, calls>>
       \/ /\ pc' = "send_result"       \* None: the stream is exhausted, the loop ends
          /\ UNCHANGED <<chunk, answer, polled, calls>>
       \/ /\ pc' = "send_result"       \* Some(Err(_)): the pattern fails, the loop ends
          /\ calls' = Append(calls, Call("next", <<>>, FALSE))
          /\ UNCHANGED <<chunk, answer, polled>>
    /\ UNCHANGED <<req, lib, chan, cache, schema, gen, exe, response>>

\* process_chat_stream: send_or_empty!(ModelOutputChunk)
SendChunk ==
    /\ pc = "send_chunk"
    /\ Send(Progress("ModelOutputChunk", <<chunk>>))
    /\ pc' = IF rxOpen THEN "answer_next" ELSE "done"
    /\ UNCHANGED <<req, lib, cache, calls, schema, gen, exe, ans, response>>

\* a Result that carries the last chunk only
SendResultLastChunk ==
    /\ pc = "send_result"
    /\ Send(Progress("Result", <<chunk>>))
    /\ pc' = "done"
    /\ UNCHANGED <<req, lib, cache, calls, schema, gen, exe, ans, response>>

\* process_chat_stream: send_or_empty!(Result(answer))
SendResult ==
    /\ pc = "send_result"
    /\ Send(Progress("Result", answer))
    /\ pc' = "done"
    /\ UNCHANGED <<req, lib, cache, calls, schema, gen, exe, ans, response>>

Orchestrator ==
    \/ TextToCypher \/ RejectError
    \/ SendProcessingStatus \/ CacheLookup \/ DiscoverStatus \/ DiscoverGraphSchema
    \/ SendSchema \/ SchemaFailedError
    \/ GenStatus \/ GenChat \/ GenChatError \/ GenNoQueryError \/ GenValidate
    \/ GenValidationError \/ GenRegenStatus \/ GenRetryChat \/ GenRetryChatError
    \/ GenRetryValidate \/ GenRetryValidationError \/ GenSendRetryQuery
    \/ GenWarnStatus \/ GenSendQuery \/ SendPreviewResult
    \/ ExecStatus \/ ExecuteQuery \/ ExecQueryError \/ ExecError \/ SendCypherResult
    \/ HealStatus \/ HealChat \/ HealChatError \/ HealValidate \/ HealValidationError
    \/ HealSendQuery \/ HealOkStatus \/ HealFailedError
    \/ AnswerStatus \/ AnswerOpen \/ AnswerOpenError \/ AnswerNext \/ SendChunk
    \/ SendResult

----------------------------------------------------------------------------
\* The serverless stream: process_text_to_cypher_stream (streaming.rs) over core.rs

\* yield Ok(progress.to_sse()): the generator runs only while its consumer polls it
Yield(progress) ==
    /\ rxOpen
    /\ events' = Append(events, progress)
    /\ UNCHANGED <<rxOpen, sendFailed>>

\* Step 1
StreamInit ==
    /\ pc = "stream_init"
    /\ Yield(Progress("Status", <<"Initializing AI client...">>))
    /\ pc' = IF cypher_only THEN "stream_skip_schema" ELSE "stream_connecting"
    /\ UNCHANGED <<req, lib, cache, calls, schema, gen, exe, ans, response>>

\* Step 2, cypher_only: the schema is "{}"
StreamSkipSchema ==
    /\ pc = "stream_skip_schema"
    /\ Yield(Progress("Status", <<"Skipping schema discovery (cypher_only mode)">>))
    /\ schema' = <<"{}">>
    /\ pc' = "stream_gen_status"
    /\ UNCHANGED <<req, lib, cache, calls, gen, exe, ans, response>>

StreamConnecting ==
    /\ pc = "stream_connecting"
    /\ Yield(Progress("Status", <<"Connecting to database...">>))
    /\ pc' = "stream_discovering"
    /\ UNCHANGED <<req, lib, cache, calls, schema, gen, exe, ans, response>>

StreamDiscovering ==
    /\ pc = "stream_discovering"
    /\ Yield(Progress("Status", <<"Discovering graph schema...">>))
    /\ pc' = "stream_discover"
    /\ UNCHANGED <<req, lib, cache, calls, schema, gen, exe, ans, response>>

\* core::discover_graph_schema: every failure is an Err
StreamDiscover ==
    /\ pc = "stream_discover"
    /\ rxOpen
    /\ \E ok \in BOOLEAN :
         /\ calls' = Append(calls, Call("discover", <<graph_name>>, ok))
         /\ IF ok THEN schema' = DISCOVERED_SCHEMA /\ pc' = "stream_yield_schema"
                  ELSE pc' = "stream_schema_error" /\ UNCHANGED schema
    /\ UNCHANGED <<req, lib, chan, cache, gen, exe, ans, response>>

StreamYieldSchema ==
    /\ pc = "stream_yield_schema"
    /\ Yield(Progress("Schema", schema))
    /\ pc' = "stream_gen_status"
    /\ UNCHANGED <<req, lib, cache, calls, schema, gen, exe, ans, response>>

StreamSchemaError ==
    /\ pc = "stream_schema_error"
    /\ Yield(Progress("Error", <<"Failed to discover schema: ", "db error">>))
    /\ pc' = "done"
    /\ UNCHANGED <<req, lib, cache, calls, schema, gen, exe, ans, response>>

\* Step 3
StreamGenStatus ==
    /\ pc = "stream_gen_status"
    /\ Yield(Progress("Status", <<"Generating Cypher query with AI...">>))
    /\ pc' = "stream_generate"
    /\ UNCHANGED <<req, lib, cache, calls, schema, gen, exe, ans, response>>

\* into_first_text().unwrap_or_else(|| "NO ANSWER")
FirstTextOrNoAnswer(content) == IF content = None THEN NO_ANSWER ELSE content[1]

\* core::generate_cypher_query: exec_chat, the NO ANSWER test, the cleaning and
\* CypherValidator::validate; Ok(clean_query) or Err(message)
CoreGenerate(out) ==
    LET raw == FirstTextOrNoAnswer(out.content)
        clean == CleanQuery(raw)
        v == validate(clean)
    IN  IF ~out.ok
        THEN [ok |-> FALSE, text |-> <<"Chat request failed: ", "provider error">>, validated |-> None]
        ELSE IF NoQuery(raw)
        THEN [ok |-> FALSE, text |-> <<"No valid query was generated">>, validated |-> None]
        ELSE IF ~v.is_valid
        THEN [ok |-> FALSE, text |-> <<"Query validation failed: ">> \o Join(v.errors, "; "),
              validated |-> Some(clean)]
        ELSE [ok |-> TRUE, text |-> clean, validated |-> Some(clean)]

StreamGenerate ==
    /\ pc = "stream_generate"
    /\ rxOpen
    /\ \E out \in ChatOutcomes :
         LET r == CoreGenerate(out) IN
         /\ query' = (IF out.ok THEN FirstTextOrNoAnswer(out.content) ELSE query)
         /\ calls' = calls \o <<Call("synth", chat_request, out.ok)>>
                       \o (IF r.validated = None THEN <<>>
                           ELSE <<Call("validate", r.validated[1], r.ok)>>)
         /\ IF r.ok
            THEN /\ executed_query' = r.text
                 /\ pc' = "stream_yield_query"
                 /\ UNCHANGED exec_error
            ELSE /\ exec_error' = r.text
                 /\ pc' = "stream_gen_error"
                 /\ UNCHANGED executed_query
    /\ UNCHANGED <<req, lib, chan, cache, schema, clean_query, retry_query, heal_query,
                   fixed_query, query_result, attempt, ans, response>>

\* Ok(q) => yield CypherQuery; "If cypher_only, stop here"
StreamYieldQuery ==
    /\ pc = "stream_yield_query"
    /\ Yield(Progress("CypherQuery", executed_query))
    /\ pc' = IF cypher_only THEN "done" ELSE "stream_exec_status"
    /\ UNCHANGED <<req, lib, cache, calls, schema, gen, exe, ans, response>>

StreamGenError ==
    /\ pc = "stream_gen_error"
    /\ Yield(Progress("Error", <<"Failed to generate query: ">> \o exec_error))
    /\ pc' = "done"
    /\ UNCHANGED <<req, lib, cache, calls, schema, gen, exe, ans, response>>

\* Step 4
StreamExecStatus ==
    /\ pc = "stream_exec_status"
    /\ Yield(Progress("Status", <<"Executing Cypher query on database...">>))
    /\ pc' = "stream_execute"
    /\ UNCHANGED <<req, lib, cache, calls, schema, gen, exe, ans, response>>

\* core::execute_cypher_query(&cypher_query, .., true)
StreamExecute ==
    /\ pc = "stream_execute"
    /\ rxOpen
    /\ \E out \in ExecOutcomes :
         /\ calls' = Append(calls, Call("exec", [query |-> executed_query, read_only |-> TRUE], out.ok))
         /\ IF out.ok
            THEN /\ query_result' = out.text
                 /\ pc' = "stream_yield_result"
                 /\ UNCHANGED exec_error
            ELSE /\ exec_error' = out.text
                 /\ pc' = "stream_exec_error"
                 /\ UNCHANGED query_result
    /\ UNCHANGED <<req, lib, chan, cache, schema, gen, heal_query, fixed_query,
                   executed_query, attempt, ans, response>>

StreamYieldResult ==
    /\ pc = "stream_yield_result"
    /\ Yield(Progress("CypherResult", query_result))
    /\ pc' = "stream_answer_status"
    /\ UNCHANGED <<req, lib, cache, calls, schema, gen, exe, ans, response>>

StreamExecError ==
    /\ pc = "stream_exec_error"
    /\ Yield(Progress("Error", <<"Query execution failed: ">> \o exec_error))
    /\ pc' = "done"
    /\ UNCHANGED <<req, lib, cache, calls, schema, gen, exe, ans, response>>

\* Step 5
StreamAnswerStatus ==
    /\ pc = "stream_answer_status"
    /\ Yield(Progress("Status", <<"Generating natural language answer...">>))
    /\ pc' = "stream_answer"
    /\ UNCHANGED <<req, lib, cache, calls, schema, gen, exe, ans, response>>

ANSWER_TEXTS == {<<"Alice is a person.">>}

\* core::generate_final_answer: exec_chat, into_first_text or a fixed text
StreamAnswer ==
    /\ pc = "stream_answer"
    /\ rxOpen
    /\ \E ok \in BOOLEAN, content \in {None} \cup {Some(a) : a \in ANSWER_TEXTS} :
         /\ ~ok => content = None
         /\ calls' = Append(calls, Call("answer", [query |-> executed_query, result |-> query_result], ok))
         /\ IF ok
            THEN /\ answer' = (IF content = None THEN <<"Unable to generate answer">> ELSE content[1])
                 /\ pc' = "stream_yield_answer"
            ELSE pc' = "stream_answer_error" /\ UNCHANGED answer
    /\ UNCHANGED <<req, lib, chan, cache, schema, gen, exe, chunk, polled, response>>

StreamYieldAnswer ==
    /\ pc = "stream_yield_answer"
    /\ Yield(Progress("Result", answer))
    /\ pc' = "done"
    /\ UNCHANGED <<req, lib, cache, calls, schema, gen, exe, ans, response>>

StreamAnswerError ==
    /\ pc = "stream_answer_error"
    /\ Yield(Progress("Error", <<"Failed to generate answer: ", "Chat request failed: ", "provider error">>))
    /\ pc' = "done"
    /\ UNCHANGED <<req, lib, cache, calls, schema, gen, exe, ans, response>>

Stream ==
    \/ StreamInit \/ StreamSkipSchema \/ StreamConnecting \/ StreamDiscovering
    \/ StreamDiscover \/ StreamYieldSchema \/ StreamSchemaError
    \/ StreamGenStatus \/ StreamGenerate \/ StreamYieldQuery \/ StreamGenError
    \/ StreamExecStatus \/ StreamExecute \/ StreamYieldResult \/ StreamExecError
    \/ StreamAnswerStatus \/ StreamAnswer \/ StreamYieldAnswer \/ StreamAnswerError

----------------------------------------------------------------------------
\* The buffered processor: processor::process

ProcessorResponse(cq, qr, fa, err) ==
    [cypher_query |-> cq, query_result |-> qr, final_answer |-> fa, error |-> err]

\* process: the model after the defaults, then resolve_service_target
ProcessStart ==
    /\ pc = "process_start"
    /\ \E outcome \in {model_status} :
         CASE outcome = "no model" ->
                /\ response' = Some(ProcessorResponse(None, None, None,
                      Some(<<"Model must be provided either in request or as DEFAULT_MODEL in environment">>)))
                /\ pc' = "done"
           [] outcome = "unresolved" ->
                /\ response' = Some(ProcessorResponse(None, None, None,
                      Some(<<"Failed to resolve service target: ", "unknown model">>)))
                /\ pc' = "done"
           [] outcome = "resolved" ->
                /\ pc' = "process_discover_schema"
                /\ UNCHANGED response
    /\ UNCHANGED <<req, lib, chan, cache, calls, schema, gen, exe, ans>>

\* process: discover_schema
ProcessDiscoverSchema ==
    /\ pc = "process_discover_schema"
    /\ \E ok \in BOOLEAN :
         /\ calls' = Append(calls, Call("discover", <<graph_name>>, ok))
         /\ IF ok
            THEN /\ schema' = DISCOVERED_SCHEMA
                 /\ pc' = "process_generate_query"
                 /\ UNCHANGED response
            ELSE /\ response' = Some(ProcessorResponse(None, None, None,
                                     Some(<<"Failed to discover schema: ", "db error">>)))
                 /\ pc' = "done"
                 /\ UNCHANGED schema
    /\ UNCHANGED <<req, lib, chan, cache, gen, exe, ans>>

\* process: generate_query; the text is cleaned, neither tested for NO ANSWER
\* nor validated
ProcessGenerateQuery ==
    /\ pc = "process_generate_query"
    /\ \E out \in ChatOutcomes :
         /\ calls' = Append(calls, Call("synth", chat_request, out.ok))
         /\ IF out.ok /\ out.content # None
            THEN /\ query' = out.content[1]
                 /\ executed_query' = CleanQuery(out.content[1])
                 /\ pc' = "process_execute_query"
                 /\ UNCHANGED response
            ELSE /\ response' = Some(ProcessorResponse(None, None, None,
                      Some(<<"Failed to generate Cypher query: ">>
                             \o (IF out.ok THEN <<"No response from AI model">>
                                 ELSE <<"Chat request failed: ", "provider error">>))))
                 /\ pc' = "done"
                 /\ UNCHANGED <<query, executed_query>>
    /\ UNCHANGED <<req, lib, chan, cache, schema, clean_query, retry_query, heal_query,
                   fixed_query, exec_error, query_result, attempt, ans>>

\* an execute_query step whose failure response leaves the query out
ProcessExecuteQueryDropsQuery ==
    /\ pc = "process_execute_query"
    /\ \E out \in ExecOutcomes :
         /\ calls' = Append(calls, Call("exec", [query |-> executed_query, read_only |-> FALSE], out.ok))
         /\ IF out.ok
            THEN /\ query_result' = out.text
                 /\ pc' = "process_generate_answer"
                 /\ UNCHANGED response
            ELSE /\ response' = Some(ProcessorResponse(None, None, None,
                                     Some(<<"Failed to execute query: ">> \o out.text)))
                 /\ pc' = "done"
                 /\ UNCHANGED query_result
    /\ UNCHANGED <<req, lib, chan, cache, schema, gen, heal_query, fixed_query,
                   executed_query, exec_error, attempt, ans>>

\* process: execute_query, graph.query(query).with_timeout(30_000)
ProcessExecuteQuery ==
    /\ pc = "process_execute_query"
    /\ \E out \in ExecOutcomes :
         /\ calls' = Append(calls, Call("exec", [query |-> executed_query, read_only |-> FALSE], out.ok))
         /\ IF out.ok
            THEN /\ query_result' = out.text
                 /\ pc' = "process_generate_answer"
                 /\ UNCHANGED response
            ELSE /\ response' = Some(ProcessorResponse(Some(executed_query), None, None,
                                     Some(<<"Failed to execute query: ">> \o out.text)))
                 /\ pc' = "done"
                 /\ UNCHANGED query_result
    /\ UNCHANGED <<req, lib, chan, cache, schema, gen, heal_query, fixed_query,
                   executed_query, exec_error, attempt, ans>>

\* process: generate_answer
ProcessGenerateAnswer ==
    /\ pc = "process_generate_answer"
    /\ \E ok \in BOOLEAN, content \in {None} \cup {Some(a) : a \in ANSWER_TEXTS} :
         /\ ~ok => content = None
         /\ calls' = Append(calls, Call("answer", [query |-> executed_query, result |-> query_result], ok))
         /\ IF ok /\ content # None
            THEN /\ answer' = content[1]
                 /\ response' = Some(ProcessorResponse(Some(executed_query), Some(query_result),
                                                       Some(content[1]), None))
            ELSE /\ response' = Some(ProcessorResponse(Some(executed_query), Some(query_result), None,
                      Some(<<"Failed to generate final answer: ">>
                             \o (IF ok THEN <<"No response from AI model">>
                                 ELSE <<"Chat request failed: ", "provider error">>))))
                 /\ UNCHANGED answer
         /\ pc' = "done"
    /\ UNCHANGED <<req, lib, chan, cache, schema, gen, exe, chunk, polled>>

Processor ==
    \/ ProcessStart \/ ProcessDiscoverSchema \/ ProcessGenerateQuery
    \/ ProcessExecuteQuery \/ ProcessGenerateAnswer

----------------------------------------------------------------------------
\* processor::process as a function of the outcomes of its collaborators, and the
\* buffered pipeline run on the outcomes a streaming request has met

\* generate_query: exec_chat, content_text_into_string, the cleaning
generate_query(out) ==
    IF ~out.ok THEN [ok |-> FALSE, text |-> <<"Chat request failed: ", "provider error">>]
    ELSE IF out.content = None THEN [ok |-> FALSE, text |-> <<"No response from AI model">>]
    ELSE [ok |-> TRUE, text |-> CleanQuery(out.content[1])]

\* exec_chat of generate_answer: Err(e), or Ok with or without a text
AnswerOutcomes ==
    {[ok |-> FALSE, content |-> None]}
        \cup {[ok |-> TRUE, content |-> c] :
                 c \in {None} \cup {Some(a) : a \in ANSWER_TEXTS}
                              \cup {Some(<<c1>>) : c1 \in CHUNK_TEXTS}
                              \cup {Some(<<c1, c2>>) : c1, c2 \in CHUNK_TEXTS}}

\* generate_answer
generate_answer(out) ==
    IF ~out.ok THEN [ok |-> FALSE, text |-> <<"Chat request failed: ", "provider error">>]
    ELSE IF out.content = None THEN [ok |-> FALSE, text |-> <<"No response from AI model">>]
    ELSE [ok |-> TRUE, text |-> out.content[1]]

\* process, from the schema discovery on: s, e and a are the outcomes of the
\* Query Synthesis, of the Query Execution and of the Answer Synthesis
process(s, e, a) ==
    LET q == generate_query(s)
        f == generate_answer(a)
    IN  IF ~q.ok
        THEN ProcessorResponse(None, None, None, Some(<<"Failed to generate Cypher query: ">> \o q.text))
        ELSE IF ~e.ok
        THEN ProcessorResponse(Some(q.text), None, None, Some(<<"Failed to execute query: ">> \o e.text))
        ELSE IF ~f.ok
        THEN ProcessorResponse(Some(q.text), Some(e.text), None,
                               Some(<<"Failed to generate final answer: ">> \o f.text))
        ELSE ProcessorResponse(Some(q.text), Some(e.text), Some(f.text), None)

\* the outcome s is the one the first Query Synthesis of this request met
SameSynthesis(s) ==
    /\ s.ok = Synths[1].ok
    /\ s.ok => ContentOrNoAnswer(s.content) = query

\* the outcome e is the one the first Query Execution of this request met
SameExecution(e) ==
    Execs # <<>> =>
        /\ e.ok = Execs[1].ok
        /\ e.ok => e.text = query_result

\* the outcome a is the one the Answer Synthesis of this request met: the call
\* failed when the streaming call or an item of its stream failed, and the text
\* is what the stream carried
SameAnswer(a) ==
    Answers # <<>> =>
        /\ a.ok = (Answers[1].ok /\ ~\E i \in DOMAIN calls : calls[i].op = "next")
        /\ a.ok => a.content = (IF answer = <<>> THEN None ELSE Some(answer))

\* processor::process on the same graph and question, its collaborators
\* answering as they answered the streaming request that has just completed;
\* a collaborator the streaming request never asked answers anything.  The
\* request replayed is one a direct client made, not the MCP tool.
BufferedReplay ==
    /\ variant = "orchestrator" /\ pc = "done" /\ rxOpen /\ ~cypher_only
    /\ Synths # <<>>
    /\ response = None /\ output = None
    /\ \E s \in {o \in ChatOutcomes : SameSynthesis(o)} :
         \E e \in {o \in ExecOutcomes : SameExecution(o)} :
           \E a \in {o \in AnswerOutcomes : SameAnswer(o)} :
             response' = Some(process(s, e, a))
    /\ UNCHANGED <<req, lib, pc, chan, cache, calls, schema, gen, exe, ans>>

----------------------------------------------------------------------------
\* The MCP server: the tool talk_with_a_graph posts the question to
\* /text_to_cypher with no model, no key and no query-only flag, and reads the
\* event stream of the request.  Every event reaches the handler as one whole
\* "data: " line.

\* build_complete_response
build_complete_response(result_buffer, final_result) ==
    IF final_result = <<>> THEN Trim(result_buffer)
    ELSE Trim(result_buffer) \o <<"\n\nFinal Answer:\n">> \o final_result

RECURSIVE process_sse_response(_, _, _)
\* process_sse_response with process_sse_event: the events are taken in order;
\* the first Error event ends the call with Err, and the end of the stream ends
\* it with Ok
process_sse_response(stream, result_buffer, final_result) ==
    IF stream = <<>>
    THEN [ok |-> TRUE, text |-> build_complete_response(result_buffer, final_result)]
    ELSE LET e == Head(stream)
             rest == Tail(stream)
         IN  CASE e.tag = "Error" ->
                    [ok |-> FALSE, text |-> <<"Error from text-to-cypher service: ">> \o e.text]
               [] e.tag = "Status" ->
                    process_sse_response(rest, result_buffer \o <<"Status: ">> \o e.text \o <<"\n">>,
                                         final_result)
               [] e.tag = "Schema" ->
                    process_sse_response(rest, result_buffer \o <<"Schema: Discovered\n">>, final_result)
               [] e.tag = "CypherQuery" ->
                    process_sse_response(rest, result_buffer \o <<"Cypher Query: ">> \o e.text \o <<"\n">>,
                                         final_result)
               [] e.tag = "CypherResult" ->
                    process_sse_response(rest, result_buffer \o <<"Query Result: ">> \o e.text \o <<"\n">>,
                                         final_result)
               [] e.tag = "ModelOutputChunk" ->
                    process_sse_response(rest, result_buffer, final_result \o e.text)
               [] e.tag = "Result" ->
                    process_sse_response(rest, result_buffer, e.text)
               [] OTHER -> process_sse_response(rest, result_buffer, final_result)

\* forward_to_http_endpoint: the tool call made this request and has read its
\* stream to the end
ForwardToHttpEndpoint ==
    /\ variant = "orchestrator" /\ ~cypher_only
    /\ Done /\ rxOpen
    /\ output = None /\ response = None
    /\ output' = Some(process_sse_response(events, <<>>, <<>>))
    /\ UNCHANGED <<unit, input, req, pc, chan, cache, calls, schema, gen, exe, ans, response>>

----------------------------------------------------------------------------
Next == Orchestrator \/ Stream \/ Processor \/ ConsumerDrop \/ CacheEndpoints
          \/ BufferedReplay \/ ForwardToHttpEndpoint

Spec == Init /\ [][Next]_vars

----------------------------------------------------------------------------
\* The request up to its cache write, on a cache that holds CAPACITY entries of
\* other graphs when the request arrives.

FullCacheInit ==
    /\ variant = "orchestrator"
    /\ cypher_only \in BOOLEAN
    /\ graph_name \in Graphs
    /\ chat_request \in Conversations
    /\ model_status = "resolved"
    /\ pc = Entry(variant)
    /\ events = <<>>
    /\ rxOpen = TRUE
    /\ sendFailed = FALSE
    /\ schema_cache = [g \in Graphs |-> None]
    /\ last_op = [g \in Graphs |-> [op |-> "none", value |-> None, stale |-> FALSE]]
    /\ others = CAPACITY
    /\ calls = <<>>
    /\ schema = <<>>
    /\ query = <<>>
    /\ clean_query = <<>>
    /\ retry_query = <<>>
    /\ heal_query = <<>>
    /\ fixed_query = <<>>
    /\ executed_query = <<>>
    /\ exec_error = <<>>
    /\ query_result = <<>>
    /\ attempt = 1
    /\ chunk = ""
    /\ answer = <<>>
    /\ polled = 0
    /\ response = None
    /\ unit = "pipeline"
    /\ input = <<>>
    /\ output = None

SchemaPhase ==
    \/ TextToCypher \/ SendProcessingStatus \/ CacheLookup \/ DiscoverStatus
    \/ DiscoverGraphSchema \/ SendSchema \/ SchemaFailedError
    \/ ConsumerDrop \/ CacheEndpoints

SpecCache == FullCacheInit /\ [][SchemaPhase]_vars

----------------------------------------------------------------------------
\* Calls of the library functions: the validator, the result formatter, the
\* schema discovery and the builders of the Query Synthesis chat request.  One
\* call is made on an argument drawn when the call is set up; the pipeline
\* stands still meanwhile.

\* Longest string handed to the validator, in tokens.
MaxLen == 4

\* Largest number of records handed to the formatter.
MaxRecords == 2

\* Longest conversation handed to a chat-request builder, in turns.
MaxTurns == 2

Alphabet == {"MATCH", "delete", "DROP", " ", "(", ")", "[", "]", "n"}

Strings == UNION {[1..k -> Alphabet] : k \in 0..MaxLen}

\* falkordb::FalkorValue, a record by variant.  The values of a record: a number,
\* a string, a path of two nodes and one edge, and a path whose node list is empty
FalkorValues ==
    {[kind |-> "I64", i |-> 42],
     [kind |-> "String", s |-> "Alice"],
     [kind |-> "Path",
      nodes |-> <<[kind |-> "Node", labels |-> <<"Person">>, properties |-> <<>>],
                  [kind |-> "Node", labels |-> <<"Person">>, properties |-> <<>>]>>,
      relationships |-> <<[kind |-> "Edge", relationship_type |-> "KNOWS",
                           properties |-> <<>>]>>],
     [kind |-> "Path", nodes |-> <<>>, relationships |-> <<>>]}

\* a record has no field, one field, or more than one
Records == UNION {[1..k -> FalkorValues] : k \in {0, 1, 2}}

RecordLists == UNION {[1..n -> Records] : n \in 0..MaxRecords}

RECURSIVE JoinTexts(_, _)
\* Vec<String>::join(sep) on texts of several tokens
JoinTexts(texts, sep) ==
    IF texts = <<>> THEN <<>>
    ELSE IF Len(texts) = 1 THEN texts[1]
    ELSE texts[1] \o <<sep>> \o JoinTexts(Tail(texts), sep)

RECURSIVE format_falkor_value(_)
format_falkor_value(value) ==
    LET Props(properties) ==
            IF properties = <<>> THEN <<>>
            ELSE <<" {">>
                 \o JoinTexts([i \in DOMAIN properties |->
                                  <<properties[i][1], ": ">>
                                      \o format_falkor_value(properties[i][2])], ", ")
                 \o <<"}">>
        PathStep(i) ==
            (IF i > 1 /\ i - 1 \in DOMAIN value.relationships
             THEN format_falkor_value(value.relationships[i - 1]) ELSE <<>>)
            \o format_falkor_value(value.nodes[i])
    IN  CASE value.kind = "Bool" -> <<ToString(value.b)>>
          [] value.kind = "I64" -> <<ToString(value.i)>>
          [] value.kind = "String" -> <<"\"", value.s, "\"">>
          [] value.kind = "Node" ->
               <<"(">>
               \o (IF value.labels = <<>> THEN <<>> ELSE <<":">> \o Join(value.labels, ":"))
               \o Props(value.properties)
               \o <<")">>
          [] value.kind = "Edge" ->
               <<"-[:", value.relationship_type>> \o Props(value.properties) \o <<"]-">>
          [] value.kind = "Path" ->
               JoinTexts([i \in DOMAIN value.nodes |-> PathStep(i)], "")
          [] value.kind = "Array" ->
               <<"[">>
               \o JoinTexts([i \in DOMAIN value.elements |->
                                format_falkor_value(value.elements[i])], ", ")
               \o <<"]">>

\* the text of one record, as both branches of format_query_records build it
FormatRecord(record) ==
    IF Len(record) = 1 THEN format_falkor_value(record[1])
    ELSE <<"[">> \o JoinTexts([i \in DOMAIN record |-> format_falkor_value(record[i])], ", ")
         \o <<"]">>

RECURSIVE NumberedLines(_, _)
\* write!(res, "{}. ", idx + 1) and writeln!(res, ...) for each record
NumberedLines(records, number) ==
    IF records = <<>> THEN <<>>
    ELSE <<ToString(number), ".", " ">> \o FormatRecord(Head(records)) \o <<"\n">>
         \o NumberedLines(Tail(records), number + 1)

\* a formatter without the single-record branch
FormatQueryRecordsNumbersAll(records) ==
    IF records = <<>> THEN <<"No results returned.">>
    ELSE TrimEnd(NumberedLines(records, 1))

format_query_records(records) ==
    IF records = <<>> THEN <<"No results returned.">>
    ELSE IF Len(records) = 1 THEN FormatRecord(records[1])
    ELSE TrimEnd(NumberedLines(records, 1))

\* Schema discovery.  The graph is described by the labels CALL db.labels() and
\* CALL db.relationshipTypes() list, each label once, by the answer of every
\* probe, and by the one query that fails, if any: the first failure ends the
\* discovery, so one failing query stands for any number of them.
EntityLabels == {"A", "B"}
RelationshipLabels == {"R", "S"}

LabelLists(labels) ==
    {l \in UNION {[1..k -> labels] : k \in 0..Cardinality(labels)} :
        \A i, j \in DOMAIN l : i # j => l[i] # l[j]}

DiscoveryQueries ==
    {<<"labels">>, <<"relationshipTypes">>}
        \cup {<<"attributes", l>> : l \in EntityLabels \cup RelationshipLabels}
        \cup {<<"probe", r, a, b>> : r \in RelationshipLabels, a \in EntityLabels, b \in EntityLabels}

DiscoveryGraphs ==
    [entity_labels : LabelLists(EntityLabels),
     relationship_labels : LabelLists(RelationshipLabels),
     edges : SUBSET (RelationshipLabels \X EntityLabels \X EntityLabels),
     failing : {None} \cup {Some(q) : q \in DiscoveryQueries}]

\* the probes of the nested loops, in the order the loops make them
Probes(graph) ==
    LET n == Len(graph.entity_labels)
    IN  [k \in 1..(Len(graph.relationship_labels) * n * n) |->
            <<graph.relationship_labels[((k - 1) \div (n * n)) + 1],
              graph.entity_labels[(((k - 1) \div n) % n) + 1],
              graph.entity_labels[((k - 1) % n) + 1]>>]

\* the queries a discovery runs on the graph
QueriesRun(graph) ==
    {<<"labels">>, <<"relationshipTypes">>}
        \cup {<<"attributes", graph.entity_labels[i]>> : i \in DOMAIN graph.entity_labels}
        \cup {<<"attributes", graph.relationship_labels[i]>> : i \in DOMAIN graph.relationship_labels}
        \cup {<<"probe">> \o Probes(graph)[k] : k \in DOMAIN Probes(graph)}

\* Relation::new(label, source, target, attributes); the attributes are the
\* ones collect_attributes read for the label and are carried along
Relation(label, source, target) ==
    [label |-> label, source |-> source, target |-> target,
     attributes |-> <<"attributes of ", label>>]

\* a discovery whose probes skip the pairs of an entity with itself
DiscoverSkipsSelfPairs(graph) ==
    LET Found(p) == p \in graph.edges /\ p[2] # p[3]
        found == SelectSeq(Probes(graph), Found)
    IN  IF graph.failing # None /\ graph.failing[1] \in QueriesRun(graph)
        THEN [ok |-> FALSE, entities |-> <<>>, relations |-> <<>>]
        ELSE [ok |-> TRUE,
              entities |-> [i \in DOMAIN graph.entity_labels |->
                               [label |-> graph.entity_labels[i],
                                attributes |-> <<"attributes of ", graph.entity_labels[i]>>]],
              relations |-> [i \in DOMAIN found |-> Relation(found[i][1], found[i][2], found[i][3])]]

\* Schema::discover_from_graph: Err on the first failing query, else the schema
discover_from_graph(graph) ==
    LET Found(p) == p \in graph.edges
        found == SelectSeq(Probes(graph), Found)
    IN  IF graph.failing # None /\ graph.failing[1] \in QueriesRun(graph)
        THEN [ok |-> FALSE, entities |-> <<>>, relations |-> <<>>]
        ELSE [ok |-> TRUE,
              entities |-> [i \in DOMAIN graph.entity_labels |->
                               [label |-> graph.entity_labels[i],
                                attributes |-> <<"attributes of ", graph.entity_labels[i]>>]],
              relations |-> [i \in DOMAIN found |-> Relation(found[i][1], found[i][2], found[i][3])]]

\* The builders of the Query Synthesis chat request
\* chat::ChatMessage: a role of ChatRole and a content
Turns ==
    [role : {"user", "assistant", "system"},
     content : {<<"Who knows Alice?">>, <<"Answer with a query.">>}]

\* the caller's conversation, and whether the template files can be read
BuilderInputs ==
    [messages : UNION {[1..k -> Turns] : k \in 0..MaxTurns}, templates : BOOLEAN]

RECURSIVE render(_, _, _)
\* TemplateEngine::render with one variable: every placeholder is replaced
render(template, placeholder, value) ==
    IF template = <<>> THEN <<>>
    ELSE (IF Head(template) = placeholder THEN value ELSE <<Head(template)>>)
         \o render(Tail(template), placeholder, value)

SYSTEM_PROMPT == <<"{system_prompt.txt: ", "{{ONTOLOGY}}", "}">>
USER_PROMPT == <<"{user_prompt.txt: ", "{{QUESTION}}", "}">>

\* render_system_prompt(ontology).unwrap_or_else(..)
render_system_prompt(ontology, templates) ==
    IF templates THEN render(SYSTEM_PROMPT, "{{ONTOLOGY}}", ontology)
    ELSE <<"Generate OpenCypher statements using this ontology: ">> \o ontology

\* process_last_user_message: render_user_prompt(question).unwrap_or_else(..)
process_last_user_message(question, templates) ==
    IF templates THEN render(USER_PROMPT, "{{QUESTION}}", question)
    ELSE <<"Generate an OpenCypher statement for: ">> \o question

\* genai::chat::ChatRequest: the system field and the messages
GenaiRequest(system, messages) == [system |-> system, messages |-> messages]

\* main.rs: the last message, when a user turn, is rendered; system turns of the
\* caller are appended as system messages; with_system sets the system field
generate_create_cypher_query_chat_request(in) ==
    LET n == Len(in.messages)
    IN  GenaiRequest(
            Some(render_system_prompt(DISCOVERED_SCHEMA, in.templates)),
            [i \in DOMAIN in.messages |->
                IF i = n /\ in.messages[i].role = "user"
                THEN [role |-> "user",
                      content |-> process_last_user_message(in.messages[i].content, in.templates)]
                ELSE in.messages[i]])

\* core.rs: the same loop; its template engine does not fail
create_cypher_query_chat_request(in) ==
    LET n == Len(in.messages)
    IN  GenaiRequest(
            Some(render_system_prompt(DISCOVERED_SCHEMA, TRUE)),
            [i \in DOMAIN in.messages |->
                IF i = n /\ in.messages[i].role = "user"
                THEN [role |-> "user",
                      content |-> process_last_user_message(in.messages[i].content, TRUE)]
                ELSE in.messages[i]])

\* processor.rs get_last_user_message: the last message, if a user turn
get_last_user_message(messages) ==
    IF messages # <<>> /\ messages[Len(messages)].role = "user"
    THEN Some(messages[Len(messages)]) ELSE None

\* processor.rs generate_query, the request it builds: every message is appended
\* as it is, then the rendering of the last user message is appended as well
processor_chat_request(in) ==
    GenaiRequest(
        Some(render_system_prompt(DISCOVERED_SCHEMA, in.templates)),
        in.messages
            \o (IF get_last_user_message(in.messages) # None
                THEN <<[role |-> "user",
                        content |-> process_last_user_message(
                                        get_last_user_message(in.messages)[1].content,
                                        in.templates)]>>
                ELSE <<>>))

Units == {"validate", "check_balanced_parentheses", "check_balanced_brackets",
          "format_query_records", "discover_from_graph",
          "generate_create_cypher_query_chat_request",
          "create_cypher_query_chat_request", "processor_chat_request"}

Inputs(u) ==
    CASE u \in {"validate", "check_balanced_parentheses", "check_balanced_brackets"} -> Strings
      [] u = "format_query_records" -> RecordLists
      [] u = "discover_from_graph" -> DiscoveryGraphs
      [] OTHER -> BuilderInputs

\* the function u on the argument in
Apply(u, in) ==
    CASE u = "validate" -> validate(in)
      [] u = "check_balanced_parentheses" -> check_balanced_parentheses(in)
      [] u = "check_balanced_brackets" -> check_balanced_brackets(in)
      [] u = "format_query_records" -> format_query_records(in)
      [] u = "discover_from_graph" -> discover_from_graph(in)
      [] u = "generate_create_cypher_query_chat_request" ->
           generate_create_cypher_query_chat_request(in)
      [] u = "create_cypher_query_chat_request" -> create_cypher_query_chat_request(in)
      [] u = "processor_chat_request" -> processor_chat_request(in)

\* no request is being served
LibInit ==
    /\ unit \in Units
    /\ input \in Inputs(unit)
    /\ output = None
    /\ variant = "processor"
    /\ cypher_only = FALSE
    /\ graph_name = "g1"
    /\ chat_request = <<>>
    /\ model_status = "resolved"
    /\ pc = "done"
    /\ events = <<>>
    /\ rxOpen = TRUE
    /\ sendFailed = FALSE
    /\ schema_cache = [g \in Graphs |-> None]
    /\ last_op = [g \in Graphs |-> [op |-> "none", value |-> None, stale |-> FALSE]]
    /\ others = 0
    /\ calls = <<>>
    /\ schema = <<>>
    /\ query = <<>>
    /\ clean_query = <<>>
    /\ retry_query = <<>>
    /\ heal_query = <<>>
    /\ fixed_query = <<>>
    /\ executed_query = <<>>
    /\ exec_error = <<>>
    /\ query_result = <<>>
    /\ attempt = 1
    /\ chunk = ""
    /\ answer = <<>>
    /\ polled = 0
    /\ response = None

\* the call returns
LibCall ==
    /\ output = None
    /\ output' = Some(Apply(unit, input))
    /\ UNCHANGED <<unit, input, req, pc, chan, cache, calls, schema, gen, exe, ans, response>>

SpecLib == LibInit /\ [][LibCall]_vars

----------------------------------------------------------------------------
\* Claims

\* C1: in the streaming orchestrator the events sent for a request hold at most
\* one event tagged Result or Error.
C1_AtMostOneTerminal ==
    variant = "orchestrator" => Cardinality(Positions(Terminal)) <= 1

\* C2: when the pipeline of a request whose consumer kept receiving has ended,
\* in full mode and in query-only mode, the last event sent is a terminal event
\* and no terminal event is followed by another event.
C2_EndsWithOneTerminal ==
    (Streaming /\ Done /\ rxOpen) =>
        /\ events # <<>>
        /\ Positions(Terminal) = {Len(events)}

\* C3: in every variant, Query Execution is only invoked with a query that
\* CypherValidator::validate accepts.
C3_OnlyValidExecuted ==
    \A i \in DOMAIN Execs : validate(Execs[i].arg.query).is_valid

\* C4: the orchestrator invokes Query Synthesis at most twice per request.
C4_SynthesisAtMostTwice ==
    variant = "orchestrator" => Len(Synths) <= 2

\* C5: the orchestrator invokes Query Execution at most twice per request.
C5_ExecutionAtMostTwice ==
    variant = "orchestrator" => Len(Execs) <= 2

\* C5 witness: a second execution after a failed first one.
C5_Witness ==
    variant = "orchestrator" /\ Len(Execs) = 2 /\ ~Execs[1].ok

\* the slot of the pattern
\*   Status* Schema? CypherQuery (Status CypherResult)? ((Status Chunk* Result) | Error)
\* that takes the next tag, slots being 0 Status*, 1 Schema, 2 CypherQuery,
\* 3 Status, 4 CypherResult, 5 Status, 6 ModelOutputChunk*, 7 Result, 8 Error;
\* 9 when no slot is left for it.  The earliest slot leaves the most to follow.
NextSlot(pos, tag) ==
    CASE tag = "Status" ->
            IF pos <= 0 THEN 0 ELSE IF pos < 3 THEN 3 ELSE IF pos < 5 THEN 5 ELSE 9
      [] tag = "Schema" -> IF pos < 1 THEN 1 ELSE 9
      [] tag = "CypherQuery" -> IF pos < 2 THEN 2 ELSE 9
      [] tag = "CypherResult" -> IF pos < 4 THEN 4 ELSE 9
      [] tag = "ModelOutputChunk" -> IF pos <= 6 THEN 6 ELSE 9
      [] tag = "Result" -> IF pos < 7 THEN 7 ELSE 9
      [] tag = "Error" -> IF pos <= 4 THEN 8 ELSE 9

RECURSIVE MatchesFrom(_, _)
MatchesFrom(pos, tags) ==
    IF tags = <<>> THEN TRUE
    ELSE LET nxt == NextSlot(pos, Head(tags))
         IN  nxt < 9 /\ MatchesFrom(nxt, Tail(tags))

\* C6: the tags of the events of a completed request form a subsequence of
\* Status*, Schema?, CypherQuery, (Status, CypherResult)?,
\* (Status, ModelOutputChunk*, Result) | Error.
C6_EventOrder ==
    (variant = "orchestrator" /\ Done) => MatchesFrom(0, Tags)

\* C7: once a send on the progress channel has failed, the orchestrator makes no
\* further call to the AI provider or to the graph database and polls the
\* provider's token stream no further.
C7_NoCallAfterFailedSend ==
    [][sendFailed =>
          /\ SelectSeq(calls', IsExternal) = SelectSeq(calls, IsExternal)
          /\ polled' = polled]_vars

\* C7 witness: a send failed after a Query Synthesis and the pipeline has ended.
C7_Witness ==
    variant = "orchestrator" /\ sendFailed /\ pc = "done" /\ Len(Synths) >= 1

\* C8: in query-only mode there is no Query Execution, no Answer Synthesis, no
\* CypherResult and no ModelOutputChunk event, and no Status, Schema or other
\* stage event follows the CypherQuery event.
C8_QueryOnlyStops ==
    cypher_only =>
        /\ Execs = <<>>
        /\ Answers = <<>>
        /\ Positions({"CypherResult", "ModelOutputChunk"}) = {}
        /\ \A i \in Positions({"CypherQuery"}) :
               \A j \in (i + 1)..Len(events) : events[j].tag \in Terminal

\* C8 witness: a query-only request that has sent its CypherQuery and ended.
C8_Witness ==
    cypher_only /\ pc = "done" /\ Positions({"CypherQuery"}) # {}

BothValidationsFailed ==
    Len(Validates) >= 2 /\ ~Validates[1].ok /\ ~Validates[2].ok

\* C9: when the first query and the regenerated query both fail validation, the
\* request ends with an Error event and sends neither CypherResult nor Result.
C9_BothInvalidEndsInError ==
    (variant = "orchestrator" /\ Done /\ rxOpen /\ BothValidationsFailed) =>
        /\ events # <<>>
        /\ events[Len(events)].tag = "Error"
        /\ Positions({"CypherResult", "Result"}) = {}

FirstValidationFailed == Len(Validates) >= 1 /\ ~Validates[1].ok

FirstExecutionFailed == Len(Execs) >= 1 /\ ~Execs[1].ok

EndedInError ==
    IF variant = "processor"
    THEN response # None /\ response[1].error # None
    ELSE Positions({"Error"}) # {}

\* a second Query Synthesis on a conversation that carries the failure feedback
SelfHealed ==
    /\ Len(Synths) >= 2
    /\ Len(Synths[2].arg) = Len(chat_request) + 2
    /\ Synths[2].arg[Len(chat_request) + 1].role = "assistant"

\* C10: in every variant, a request whose first query failed validation or
\* execution does not end in Error before one self-healing Query Synthesis.
C10_FirstFailureNotFatal ==
    (Done /\ rxOpen /\ EndedInError /\ (FirstValidationFailed \/ FirstExecutionFailed))
        => SelfHealed

LastEvent == events[Len(events)]

DiscoveryFailed == \E i \in DOMAIN calls : calls[i].op = "discover" /\ ~calls[i].ok

\* C11: when the graph database cannot be reached or the introspection fails
\* during schema resolution, the request sends exactly one Error event, as its
\* last event, and makes no AI completion call and no second discovery.
C11_DiscoveryFailureOneError ==
    (Streaming /\ Done /\ rxOpen /\ DiscoveryFailed) =>
        /\ events # <<>>
        /\ LastEvent.tag = "Error"
        /\ Cardinality(Positions({"Error"})) = 1
        /\ Synths = <<>> /\ Answers = <<>>
        /\ Cardinality({i \in DOMAIN calls : calls[i].op = "discover"}) = 1

\* the provider call of the first Query Synthesis failed, or its reply was empty
\* or the sentinel NO ANSWER
FirstSynthesisFailed == Synths # <<>> /\ (~Synths[1].ok \/ NoQuery(query))

\* C12: when the first Query Synthesis fails or answers nothing, the request
\* sends exactly one Error event, as its last event, and never invokes Query
\* Execution.
C12_SynthesisFailureOneError ==
    (Streaming /\ Done /\ rxOpen /\ FirstSynthesisFailed) =>
        /\ events # <<>>
        /\ LastEvent.tag = "Error"
        /\ Cardinality(Positions({"Error"})) = 1
        /\ Execs = <<>>

\* the streaming call of the Answer Synthesis failed to open, or an item of its
\* token stream was an error
AnswerFailed ==
    /\ Answers # <<>>
    /\ ~Answers[1].ok \/ \E i \in DOMAIN calls : calls[i].op = "next" /\ ~calls[i].ok

\* C13: when the provider fails during Answer Synthesis, the request ends with
\* an Error event, sends no Result, and has sent a CypherQuery and a CypherResult
\* event before that Error.
C13_AnswerFailureEndsInError ==
    (Streaming /\ Done /\ rxOpen /\ AnswerFailed) =>
        /\ events # <<>>
        /\ LastEvent.tag = "Error"
        /\ Positions({"Result"}) = {}
        /\ Positions({"CypherQuery"}) # {}
        /\ Positions({"CypherResult"}) # {}

\* every collaborator succeeded at its first call and the answer was produced
HappyPath ==
    /\ Done /\ rxOpen
    /\ \A i \in DOMAIN calls : calls[i].ok
    /\ Len(Synths) = 1 /\ Len(Execs) = 1 /\ Len(Answers) = 1

NotChunk(tag) == tag # "ModelOutputChunk"

\* C14: on the happy path the tags of the events, ModelOutputChunk left out, are
\* exactly Status, Schema, CypherQuery, Status, CypherResult, Status, Result.
C14_HappyPathTags ==
    (Streaming /\ HappyPath) =>
        SelectSeq(Tags, NotChunk)
            = <<"Status", "Schema", "CypherQuery", "Status", "CypherResult", "Status", "Result">>

IsChunkEvent(e) == e.tag = "ModelOutputChunk"

\* the texts of the ModelOutputChunk events sent so far, in order; a text made
\* of pieces is the sequence of its pieces
ChunkTexts ==
    LET sent == SelectSeq(events, IsChunkEvent)
    IN  [i \in DOMAIN sent |-> sent[i].text[1]]

\* C15: in the streaming Answer Synthesis the chunks of the token stream are sent
\* as ModelOutputChunk events in stream order, all before the Result event, and
\* the text of the Result event is the concatenation of their texts.
C15_ResultIsConcatenation ==
    (variant = "orchestrator" /\ ~cypher_only) =>
        /\ Len(ChunkTexts) <= Len(answer)
        /\ Len(answer) <= Len(ChunkTexts) + 1
        /\ SubSeq(answer, 1, Len(ChunkTexts)) = ChunkTexts
        /\ \A i \in Positions({"Result"}) :
               /\ events[i].text = ChunkTexts
               /\ \A j \in Positions({"ModelOutputChunk"}) : j < i

\* C15 witness: a Result sent after two chunks of different texts.
C15_Witness ==
    /\ variant = "orchestrator" /\ ~cypher_only
    /\ Positions({"Result"}) # {}
    /\ Len(ChunkTexts) = 2 /\ ChunkTexts[1] # ChunkTexts[2]

\* C16: a lookup of graph g, cache.get(g), returns the schema of the last insert
\* for g as long as no invalidate of g followed it, and returns nothing after
\* clear_schema_cache(g) as long as no insert for g followed it.
C16_CacheLookup ==
    variant = "orchestrator" =>
        \A g \in Graphs :
            /\ last_op[g].op = "insert" => schema_cache[g] = last_op[g].value
            /\ last_op[g].op = "invalidate" => schema_cache[g] = None

\* C16 witness: the request's lookup hit the schema that get_graph_schema_string
\* had inserted, without a discovery of its own.
C16_Witness ==
    /\ variant = "orchestrator" /\ pc = "send_schema"
    /\ ~\E i \in DOMAIN calls : calls[i].op = "discover"
    /\ schema = DISCOVERED_SCHEMA
    /\ last_op[graph_name].op = "insert"
    /\ last_op[graph_name].value = Some(DISCOVERED_SCHEMA)

\* C17: the buffered pipeline, given the outcomes the streaming request met,
\* reports success exactly when the last streaming event is Result, with the
\* same query, query result and answer, and an error exactly when it is Error.
C17_BufferedAgrees ==
    (variant = "orchestrator" /\ response # None) =>
        /\ response[1].error = None <=> LastEvent.tag = "Result"
        /\ response[1].error # None <=> LastEvent.tag = "Error"
        /\ response[1].error = None =>
               /\ response[1].cypher_query = Some(executed_query)
               /\ response[1].query_result = Some(query_result)
               /\ response[1].final_answer = Some(LastEvent.text)

\* C18: without a model, or with a model that does not resolve, the pipeline is
\* not started: no collaborator is called, no schema is looked up, and the
\* stream holds one event, an Error (the buffered pipeline returns an error).
C18_FailFast ==
    (variant \in {"orchestrator", "processor"} /\ model_status # "resolved") =>
        /\ calls = <<>>
        /\ pc \in {Entry(variant), "reject_error", "done"}
        /\ schema = <<>>
        /\ Len(events) <= 1
        /\ \A i \in DOMAIN events : events[i].tag = "Error"
        /\ (variant = "orchestrator" /\ Done /\ rxOpen) => Len(events) = 1
        /\ (variant = "processor" /\ Done) =>
               /\ response # None
               /\ response[1].error # None
               /\ response[1].cypher_query = None

\* C18 witness: a request whose model did not resolve has ended with one Error.
C18_Witness ==
    /\ variant = "orchestrator" /\ model_status = "unresolved"
    /\ pc = "done" /\ Len(events) = 1 /\ events[1].tag = "Error"

\* the Query Synthesis calls made after a Query Execution: the self-healing
HealingCalls ==
    {i \in DOMAIN calls : calls[i].op = "synth" /\ \E j \in 1..(i - 1) : calls[j].op = "exec"}

\* C19: the conversation of the self-healing retry is determined by the request
\* and the failed query, and carries no text of the database's error.
C19_RetryIgnoresErrorText ==
    variant = "orchestrator" =>
        \A i \in HealingCalls :
            /\ calls[i].arg = healing_feedback(chat_request, Execs[1].arg.query, GENERIC_ERROR)
            /\ \A m \in DOMAIN calls[i].arg :
                   \A t \in DOMAIN calls[i].arg[m].content :
                       calls[i].arg[m].content[t] \notin DbErrors

\* C19 witness: a self-healing retry after the database rejected the query with
\* one of its error messages.
C19_Witness ==
    /\ variant = "orchestrator" /\ HealingCalls # {}
    /\ pc \in {"heal_validate", "heal_chat_error", "done"}
    /\ \E t \in DOMAIN exec_error : exec_error[t] = "timeout"

HasDangerousKeyword(q) == \E i \in DOMAIN q : Upper(q[i]) \in {"DROP", "DELETE"}

DANGEROUS_OPERATIONS == "Query contains potentially dangerous operations (DROP, DELETE ALL)"

\* C20: validate rejects, with the dangerous-operations error, every query that
\* holds the keyword DROP or DELETE in any letter case, whatever follows it.
C20_DangerousRejected ==
    \A i \in DOMAIN Validates :
        HasDangerousKeyword(Validates[i].arg) =>
            /\ ~validate(Validates[i].arg).is_valid
            /\ \E k \in DOMAIN validate(Validates[i].arg).errors :
                   validate(Validates[i].arg).errors[k] = DANGEROUS_OPERATIONS

----------------------------------------------------------------------------
\* Claims about the library functions

\* the call of u has returned
Called(u) == unit = u /\ output # None

Count(s, t) == Cardinality({i \in DOMAIN s : s[i] = t})

\* no prefix holds more closing than opening marks, and the totals are equal
Balanced(s, open, close) ==
    /\ \A k \in 0..Len(s) : Count(SubSeq(s, 1, k), close) <= Count(SubSeq(s, 1, k), open)
    /\ Count(s, open) = Count(s, close)

\* one entry for each violated rule, in the order of the rules
RuleErrors(q) ==
    (IF \E i \in DOMAIN q : Upper(q[i]) \in BasicCypher THEN <<>>
     ELSE <<"Query does not contain valid Cypher keywords">>)
    \o (IF HasDangerousKeyword(q) THEN <<DANGEROUS_OPERATIONS>> ELSE <<>>)
    \o (IF Balanced(q, "(", ")") THEN <<>> ELSE <<"Unbalanced parentheses in query">>)
    \o (IF Balanced(q, "[", "]") THEN <<>> ELSE <<"Unbalanced brackets in query">>)

\* C21: validate reports every violation.  A query that is empty after trimming
\* gets exactly the error "Query is empty" and no warning; every other query gets
\* one error for each violated rule among missing keyword, destructive operation,
\* unbalanced parentheses and unbalanced brackets, in that order, none skipped.
C21_EveryViolationReported ==
    Called("validate") =>
        IF Trim(input) = <<>>
        THEN output[1].errors = <<"Query is empty">> /\ output[1].warnings = <<>>
        ELSE output[1].errors = RuleErrors(Trim(input))

\* a Query Synthesis whose conversation ends with the validation feedback
HasValidationFeedback(c) ==
    /\ c.op = "synth"
    /\ Len(c.arg) > Len(chat_request)
    /\ Head(c.arg[Len(c.arg)].content) = "The previous query has validation errors: "

WarnedOnly(q) == validate(q).errors = <<>> /\ validate(q).warnings # <<>>

\* C22: validate returns is_valid = true exactly when its errors list is empty,
\* whatever the warnings; and a first query with warnings and no errors is
\* accepted by the orchestrator: no regeneration is asked for, the query is the
\* one executed, and a request that runs to its end has executed it.
C22_WarningsDoNotBlock ==
    /\ \A i \in DOMAIN Validates :
          Validates[i].ok <=> (validate(Validates[i].arg).errors = <<>>)
    /\ (variant = "orchestrator" /\ Validates # <<>> /\ WarnedOnly(Validates[1].arg)) =>
          /\ \A i \in DOMAIN calls : ~HasValidationFeedback(calls[i])
          /\ pc \notin {"gen_validation_error", "gen_regen_status", "gen_retry_chat",
                        "gen_retry_chat_error", "gen_retry_validate",
                        "gen_retry_validation_error", "gen_warn_status",
                        "gen_send_retry_query"}
          /\ (Execs # <<>> => Execs[1].arg.query = Validates[1].arg)
          /\ (pc = "done" /\ rxOpen /\ ~cypher_only => Execs # <<>>)

C22_Witness ==
    /\ variant = "orchestrator"
    /\ Validates # <<>> /\ WarnedOnly(Validates[1].arg)
    /\ Len(Synths) = 1
    /\ Execs # <<>> /\ Execs[1].arg.query = Validates[1].arg

\* C23: check_balanced_parentheses(s) is false when some prefix of s has more
\* closing than opening parentheses or the totals differ, and true otherwise;
\* check_balanced_brackets does the same for brackets; each check ignores the
\* marks of the other, so an interleaving such as ( [ ) ] passes both.
C23_BalancedChecks ==
    /\ Called("check_balanced_parentheses") => (output[1] <=> Balanced(input, "(", ")"))
    /\ Called("check_balanced_brackets") => (output[1] <=> Balanced(input, "[", "]"))

C23_Witness ==
    /\ Called("check_balanced_parentheses")
    /\ input = <<"(", "[", ")", "]">>
    /\ output = Some(TRUE)
    /\ check_balanced_brackets(input)

\* the text of a record: the formatted value alone when the record has exactly
\* one field, the values joined by ", " inside square brackets otherwise
RecordText(record) ==
    IF Len(record) = 1 THEN format_falkor_value(record[1])
    ELSE <<"[">> \o JoinTexts([i \in DOMAIN record |-> format_falkor_value(record[i])], ", ")
         \o <<"]">>

\* the reference: the literal, the record text, or the numbered lines joined
\* by a newline
ReferenceText(records) ==
    IF records = <<>> THEN <<"No results returned.">>
    ELSE IF Len(records) = 1 THEN RecordText(records[1])
    ELSE JoinTexts([i \in DOMAIN records |->
                       <<ToString(i), ".", " ">> \o RecordText(records[i])], "\n")

\* C24 as stated: format_query_records equals the reference for every list of
\* records; n >= 2 records give exactly the n numbered lines joined by newline.
C24_EqualsReference ==
    Called("format_query_records") => output[1] = ReferenceText(input)

\* C24 as amended: format_query_records equals the reference, except that for
\* n >= 2 records all white space at the end of the joined text is removed.
C24_EqualsTrimmedReference ==
    Called("format_query_records") =>
        output[1] = IF Len(input) >= 2 THEN TrimEnd(ReferenceText(input))
                    ELSE ReferenceText(input)

C24_Witness ==
    /\ Called("format_query_records")
    /\ input = <<<<[kind |-> "I64", i |-> 42]>>,
                 <<[kind |-> "Path", nodes |-> <<>>, relationships |-> <<>>]>>>>
    /\ output = Some(<<"1", ".", " ", "42", "\n", "2", ".">>)

Range(s) == {s[i] : i \in DOMAIN s}

\* C25: in a schema discover_from_graph returns, the Relation with label r,
\* source a and target b is present exactly when r, a and b are discovered
\* labels and the probe from a to b over r found an edge, a = b included, and
\* it is present at most once.
C25_RelationsMatchProbes ==
    (Called("discover_from_graph") /\ output[1].ok) =>
        \A r \in RelationshipLabels, a \in EntityLabels, b \in EntityLabels :
            Cardinality({i \in DOMAIN output[1].relations :
                            /\ output[1].relations[i].label = r
                            /\ output[1].relations[i].source = a
                            /\ output[1].relations[i].target = b})
                = IF /\ r \in Range(input.relationship_labels)
                     /\ a \in Range(input.entity_labels)
                     /\ b \in Range(input.entity_labels)
                     /\ <<r, a, b>> \in input.edges
                  THEN 1 ELSE 0

C25_Witness ==
    /\ Called("discover_from_graph") /\ output[1].ok
    /\ input.entity_labels = <<"A", "B">>
    /\ input.relationship_labels = <<"R", "S">>
    /\ input.edges = {<<"R", "A", "A">>, <<"S", "B", "A">>}
    /\ output[1].relations = <<Relation("R", "A", "A"), Relation("S", "B", "A")>>

----------------------------------------------------------------------------
\* Claims about the conversations and the chat requests

VALIDATION_FEEDBACK == "The previous query has validation errors: "
EXECUTION_FEEDBACK == "The previous query failed with error: "

\* C26: every Query Synthesis after the first runs on the caller's conversation,
\* each turn unchanged and in order, followed by exactly two turns: an assistant
\* turn holding the failed query, then a user turn holding the feedback, which
\* for a validation failure names the errors of the validator joined by "; ".
\* The caller's conversation stays the one the first synthesis ran on.
C26_RetryConversation ==
    variant = "orchestrator" =>
        /\ chat_request \in Conversations
        /\ Synths # <<>> => Synths[1].arg = chat_request
        /\ \A i \in DOMAIN Synths : i >= 2 =>
              LET c == Synths[i].arg
                  n == Len(chat_request)
              IN  /\ Len(c) = n + 2
                  /\ SubSeq(c, 1, n) = chat_request
                  /\ c[n + 1].role = "assistant"
                  /\ c[n + 2].role = "user"
                  /\ \/ /\ Head(c[n + 2].content) = VALIDATION_FEEDBACK
                        /\ ~Validates[1].ok
                        /\ c[n + 1].content = Validates[1].arg
                        /\ c[n + 2].content =
                              <<VALIDATION_FEEDBACK>>
                                  \o Join(validate(Validates[1].arg).errors, "; ")
                                  \o <<". Please generate a corrected Cypher query.">>
                     \/ /\ Head(c[n + 2].content) = EXECUTION_FEEDBACK
                        /\ ~Execs[1].ok
                        /\ c[n + 1].content = Execs[1].arg.query

\* C26 witness: a regeneration after a validation failure and a self-healing
\* after an execution failure, in one request.
C26_Witness ==
    /\ variant = "orchestrator"
    /\ Len(Synths) = 3
    /\ Head(Synths[2].arg[Len(chat_request) + 2].content) = VALIDATION_FEEDBACK
    /\ Head(Synths[3].arg[Len(chat_request) + 2].content) = EXECUTION_FEEDBACK

Discovers == SelectSeq(calls, LAMBDA c : c.op = "discover")

SchemaSent == Positions({"Schema"}) # {}

Builders == {"generate_create_cypher_query_chat_request",
             "create_cypher_query_chat_request", "processor_chat_request"}

IsSystem(m) == m.role = "system"
NotSystem(m) == ~IsSystem(m)

\* the system turns the provider receives: the system field and the messages
\* of role system
SystemTurns(request) ==
    (IF request.system = None THEN 0 ELSE 1) + Len(SelectSeq(request.messages, IsSystem))

\* C28: a chat request built for Query Synthesis holds at most one system turn,
\* the one built from the schema; no turn of the caller's conversation is
\* forwarded as a system turn.
C28_OneSystemTurn ==
    (unit \in Builders /\ output # None) =>
        /\ SystemTurns(output[1]) <= 1
        /\ SelectSeq(output[1].messages, IsSystem) = <<>>

\* the rendering of a question through the question template
Rendered(content) ==
    {process_last_user_message(content, TRUE), process_last_user_message(content, FALSE)}

\* C29: the chat request built for Query Synthesis has as many non-system turns
\* as the input conversation, in the same order and with the same roles; every
\* turn but a final user turn keeps its text, and a final user turn is replaced
\* by its rendering through the question template.  In all three builders.
C29_TurnsPreserved ==
    (unit \in Builders /\ output # None) =>
        LET ins == SelectSeq(input.messages, NotSystem)
            outs == SelectSeq(output[1].messages, NotSystem)
            final == input.messages # <<>> /\ input.messages[Len(input.messages)].role = "user"
        IN  /\ Len(outs) = Len(ins)
            /\ \A i \in DOMAIN ins : i \in DOMAIN outs =>
                  /\ outs[i].role = ins[i].role
                  /\ IF final /\ i = Len(ins)
                     THEN outs[i].content \in Rendered(ins[i].content)
                     ELSE outs[i].content = ins[i].content

\* the text the last Query Synthesis returned
LastReply ==
    IF Len(Synths) = 1 THEN query
    ELSE IF Head(Synths[Len(Synths)].arg[Len(chat_request) + 2].content) = VALIDATION_FEEDBACK
    THEN retry_query
    ELSE heal_query

\* a CypherQuery event text without the mark of a fixed query
SentQuery(text) == IF text # <<>> /\ Head(text) = "Fixed: " THEN Tail(text) ELSE text

\* C30: in every variant, for the first and for every later Query Synthesis, a
\* reply that is empty or NO ANSWER after trimming is a failure: it is not sent
\* as a CypherQuery event, it is not executed, and the request that ends on it
\* ends with an Error.
C30_NoAnswerIsFailure ==
    /\ \A i \in Positions({"CypherQuery"}) : ~NoQuery(SentQuery(events[i].text))
    /\ \A i \in DOMAIN Execs : ~NoQuery(Execs[i].arg.query)
    /\ (Done /\ Synths # <<>> /\ Synths[Len(Synths)].ok /\ NoQuery(LastReply)) =>
          IF variant = "processor"
          THEN response # None /\ response[1].error # None /\ Execs = <<>>
          ELSE rxOpen => LastEvent.tag = "Error"

----------------------------------------------------------------------------
\* Claims about the cache under interleaving, the executions and the consumers

\* C31: when clear_schema_cache(g) runs after the request for g has read or
\* discovered its schema and before the request writes the cache, the write of
\* the request does not leave that schema in the cache.
C31_InvalidationNotUndone ==
    [][(variant = "orchestrator" /\ pc = "send_schema" /\ pc' # pc
            /\ last_op[graph_name].stale)
          => schema_cache'[graph_name] # Some(schema)]_vars

\* C32: every execution of a generated query, the first one and the one after
\* self-healing, in the orchestrator, the serverless stream and the buffered
\* processor, runs in read-only mode.
C32_ReadOnlyExecution == \A i \in DOMAIN Execs : Execs[i].arg.read_only

\* the CypherQuery events sent, in order
CypherQueryEvents == SelectSeq(events, LAMBDA e : e.tag = "CypherQuery")

\* C33 as stated: the i-th query executed is, text for text, the i-th
\* CypherQuery event sent; the query executed after self-healing is the text of
\* the last CypherQuery event.
C33_EventIsExecutedQuery ==
    Streaming =>
        \A i \in DOMAIN Execs :
            /\ i <= Len(CypherQueryEvents)
            /\ CypherQueryEvents[i].text = Execs[i].arg.query

\* C33, amended: the first query executed is the text of the first CypherQuery
\* event; the query executed after self-healing is the text of the last
\* CypherQuery event without its leading "Fixed: ".
C33_EventMarksFixedQuery ==
    Streaming =>
        \A i \in DOMAIN Execs :
            /\ i <= Len(CypherQueryEvents)
            /\ CypherQueryEvents[i].text
                  = IF i = 1 THEN Execs[i].arg.query ELSE <<"Fixed: ">> \o Execs[i].arg.query
            /\ i > 1 => i = Len(CypherQueryEvents)

\* C33 witness: the orchestrator executed a second, self-healed query.
C33_Witness ==
    /\ variant = "orchestrator" /\ Len(Execs) = 2
    /\ Execs[2].arg.query # Execs[1].arg.query
    /\ Head(CypherQueryEvents[2].text) = "Fixed: "

\* the executions that returned records
OkExecs == SelectSeq(Execs, LAMBDA c : c.ok)

\* C34: every Answer Synthesis call is given the query of the one execution of
\* the request that returned records, which is the last execution made, and the
\* result of that execution; after a successful self-healing that is the
\* regenerated query, not the first one.
C34_AnswerFromExecutedQuery ==
    \A i \in DOMAIN Answers :
        /\ Len(OkExecs) = 1
        /\ Execs[Len(Execs)].ok
        /\ Answers[i].arg.query = OkExecs[1].arg.query
        /\ Answers[i].arg.result = query_result

\* C34 witness: an answer call after a failed first query and a different
\* regenerated query that returned records.
C34_Witness ==
    /\ variant = "orchestrator" /\ Answers # <<>>
    /\ Len(Execs) = 2 /\ ~Execs[1].ok
    /\ Execs[2].arg.query # Execs[1].arg.query
    /\ Answers[1].arg.query = Execs[2].arg.query

\* the stage a response of the buffered pipeline failed at, read from its error:
\* 0 the model, 1 the schema, 2 the query, 3 the execution, 4 the answer, and 5
\* when there is no error
FailedStage(r) ==
    IF r.error = None THEN 5
    ELSE CASE Head(r.error[1]) = "Failed to discover schema: " -> 1
           [] Head(r.error[1]) = "Failed to generate Cypher query: " -> 2
           [] Head(r.error[1]) = "Failed to execute query: " -> 3
           [] Head(r.error[1]) = "Failed to generate final answer: " -> 4
           [] OTHER -> 0

\* C35: in every response of processor::process, error is absent exactly when
\* final_answer is present, query_result implies cypher_query and final_answer
\* implies query_result; the query is present exactly when the failure came
\* after Query Synthesis, the result exactly when it came after Query Execution
\* and the answer exactly when nothing failed; and in the processor run the
\* outputs present are the ones the stages produced.
C35_ResponseShape ==
    response # None =>
        LET r == response[1]
            k == FailedStage(r)
        IN  /\ r.error = None <=> r.final_answer # None
            /\ r.query_result # None => r.cypher_query # None
            /\ r.final_answer # None => r.query_result # None
            /\ r.cypher_query # None <=> k > 2
            /\ r.query_result # None <=> k > 3
            /\ r.final_answer # None <=> k > 4
            /\ variant = "processor" =>
                  /\ k = 1 <=> (Discovers # <<>> /\ ~Discovers[1].ok)
                  /\ k = 2 <=> (Synths # <<>> /\ Execs = <<>>)
                  /\ k = 3 <=> (Execs # <<>> /\ ~Execs[1].ok)
                  /\ k > 3 <=> Answers # <<>>
                  /\ k > 2 => r.cypher_query = Some(Execs[1].arg.query)
                  /\ k > 3 => r.query_result = Some(query_result)
                  /\ k > 4 => r.final_answer = Some(answer)

\* C35 witness: a response of the processor whose execution failed, with the
\* query and without a result.
C35_Witness ==
    /\ variant = "processor" /\ response # None
    /\ FailedStage(response[1]) = 3
    /\ response[1].cypher_query # None

\* the text the tool returns ends with this answer under its heading, when
\* there is an answer text
EndsWithAnswer(text, final) ==
    LET tail == <<"\n\nFinal Answer:\n">> \o final
    IN  \/ final = <<>>
        \/ /\ Len(text) >= Len(tail)
           /\ SubSeq(text, Len(text) - Len(tail) + 1, Len(text)) = tail

\* C36: the tool call succeeds and returns the final answer whenever the
\* request ended with a Result event, self-healed requests included, and it
\* fails exactly when the request ended with an Error event.
C36_ToolFollowsLastEvent ==
    (variant = "orchestrator" /\ output # None) =>
        LET r == output[1]
        IN  /\ (events # <<>> /\ LastEvent.tag = "Result") =>
                  r.ok /\ EndsWithAnswer(r.text, LastEvent.text)
            /\ ~r.ok <=> (events # <<>> /\ LastEvent.tag = "Error")

\* the step is a step of the request
IsRequestStep == pc' # pc

\* the step is the cache.insert of the request
IsRequestInsert == pc = "send_schema" /\ pc' = "gen_status"

\* C37 as stated: clear_schema_cache(g) changes the entry of no other graph; no
\* step of a request for g adds, replaces or removes the entry of another
\* graph; and no step of the request but its insert, which follows the sending
\* of the Schema event, changes the cache.
C37_CacheFrame ==
    [][/\ \A g \in Graphs :
             ClearSchemaCache(g) =>
                 /\ \A h \in Graphs \ {g} : schema_cache'[h] = schema_cache[h]
                 /\ others' = others
       /\ IsRequestStep =>
             /\ \A h \in Graphs \ {graph_name} : schema_cache'[h] = schema_cache[h]
             /\ others' = others
       /\ (IsRequestStep /\ ~IsRequestInsert) =>
             schema_cache' = schema_cache /\ others' = others]_vars

\* the insert of the request adds an entry to a cache that holds CAPACITY
\* entries
InsertAtCapacity ==
    /\ IsRequestInsert
    /\ schema_cache[graph_name] = None
    /\ EntryCount(schema_cache, others) = CAPACITY

\* C37, amended: as stated, except that the insert of the request, when it adds
\* an entry to a cache that holds CAPACITY entries, removes one entry, which may
\* be the entry of another graph; it adds or replaces none.
C37_CacheFrameUpToEviction ==
    [][/\ \A g \in Graphs :
             ClearSchemaCache(g) =>
                 /\ \A h \in Graphs \ {g} : schema_cache'[h] = schema_cache[h]
                 /\ others' = others
       /\ IsRequestStep =>
             \/ /\ \A h \in Graphs \ {graph_name} : schema_cache'[h] = schema_cache[h]
                /\ others' = others
             \/ /\ InsertAtCapacity
                /\ \A h \in Graphs \ {graph_name} : schema_cache'[h] \in {schema_cache[h], None}
                /\ others' \in {others - 1, others}
                /\ EntryCount(schema_cache', others') = CAPACITY
       /\ (IsRequestStep /\ ~IsRequestInsert) =>
             schema_cache' = schema_cache /\ others' = others]_vars

\* C37 witness: the request has inserted its schema into a cache that held
\* CAPACITY entries of other graphs, and one of those entries is gone.
C37_Witness ==
    /\ pc = "gen_status"
    /\ schema_cache[graph_name] = Some(DISCOVERED_SCHEMA)
    /\ \A h \in Graphs \ {graph_name} : last_op[h].op = "none"
    /\ others = CAPACITY - 1

====
